---- MODULE Spec2Model ----
(***************************************************************************)
(* A model of databoard/generic.py: the fold runner (train_on_fold ..      *)
(* train_and_valid_on_fold), run_on_folds, the batch executor run_models   *)
(* and the greedy combination step best_combine.                           *)
(*                                                                         *)
(* The file system is the only shared resource.  A path is the tuple of   *)
(* the arguments of get_f_name; a directory is the pair of the arguments  *)
(* of get_f_dir.  One unit of work is one call method(cv_is, path) made   *)
(* by run_on_folds; with is_parallelize the units run in worker processes *)
(* and their file-system steps interleave.                                 *)
(***************************************************************************)
EXTENDS Integers, Sequences, FiniteSets, TLC

\* Bounds of the model.
NSub == 3
NFold == 2
NTest == 4
NCand == 3
NPts == 2
MaxVal == 2
MaxList == 2
MaxIndex == 2
MaxVector == 2
MaxCalls == 3
MaxPath == 3
NCalib == 4
MaxSignUps == 2
MaxTestCalls == 4
NClass == 3
MaxFit == 3

Rows == 1..NSub
Folds == 1..NFold

---------------------------------------------------------------------------
(* Character sequences stand for Python strings.                           *)

Marker == <<"-", "-", "-", ">">>

\* The texts str(e) of the exceptions a submission's train/test code raises.
Messages ==
    { <<>>, <<"e">>, Marker \o <<"e">>, <<"a">> \o Marker \o <<"e">> }

\* s[from:] of Python, from counted from 0.
SliceFrom(s, from) == SubSeq(s, from + 1, Len(s))

\* Whether sub occurs in s at 0-based offset k.
OccursAt(s, sub, k) ==
    /\ k >= 0
    /\ k + Len(sub) <= Len(s)
    /\ SubSeq(s, k + 1, k + Len(sub)) = sub

\* str.rfind: the highest offset at which sub occurs in s, -1 when none.
rfind(s, sub) ==
    LET hits == { k \in 0..Len(s) : OccursAt(s, sub, k) }
    IN  IF hits = {} THEN -1
        ELSE CHOOSE k \in hits : \A j \in hits : j <= k

---------------------------------------------------------------------------
(* Fold identity and artifact paths.                                       *)

\* specific.get_cv: n_cv splits of the indices 0..n-1, half for training.
\* The shuffle is abstracted to the k-th rotation; distinct folds have
\* distinct training-index vectors.
get_cv(n) ==
    [ k \in Folds |->
        [ train |-> [ j \in 1..(n \div 2) |-> (k + j - 2) % n ],
          valid |-> [ j \in 1..(n - (n \div 2)) |->
                        (k + j - 2 + (n \div 2)) % n ] ] ]

\* hasher.update(index_list): the digest state after the bytes of the index
\* vector, order-sensitive.  md5 is modelled as a positional code (its
\* collisions are not modelled).
RECURSIVE md5_update(_)
md5_update(index_list) ==
    IF index_list = <<>> THEN 1
    ELSE md5_update(SubSeq(index_list, 1, Len(index_list) - 1)) * (NTest + 2)
         + index_list[Len(index_list)] + 1

\* hasher.hexdigest(): the digest as a string.
get_hash_string_from_indices(index_list) == ToString(md5_update(index_list))

get_full_model_path(idx, model_df) == <<"models", model_df.team, idx>>

\* The directory get_f_dir tests and creates.
f_dir(full_model_path, subdir) == <<full_model_path, subdir>>

\* The file name get_f_name returns: <dir>/<f_name>.<extension>.
f_name_of(full_model_path, subdir, f_name, extension) ==
    <<full_model_path, subdir, f_name, extension>>

get_model_f_name(full_model_path, hash_string) ==
    f_name_of(full_model_path, "model", hash_string, "p")

\* A validation file named without the fold identity.
get_valid_f_name_unscoped(full_model_path, hash_string) ==
    f_name_of(full_model_path, "valid", "predictions", "csv")

get_valid_f_name(full_model_path, hash_string) ==
    f_name_of(full_model_path, "valid", hash_string, "csv")

get_test_f_name(full_model_path, hash_string) ==
    f_name_of(full_model_path, "test", hash_string, "csv")

get_train_time_f_name(full_model_path, hash_string) ==
    f_name_of(full_model_path, "train_time", hash_string, "csv")

get_valid_time_f_name(full_model_path, hash_string) ==
    f_name_of(full_model_path, "valid_time", hash_string, "csv")

init_py_f_name(full_model_path) ==
    f_name_of(full_model_path, ".", "__init__", "py")

error_f_name(full_model_path, error_state) ==
    f_name_of(full_model_path, ".", error_state, "txt")

\* The artifact file of a stage of the fold runner.
StageFile(stage, full_model_path, hash_string) ==
    CASE stage = "train_time" -> get_train_time_f_name(full_model_path, hash_string)
      [] stage = "valid_time" -> get_valid_time_f_name(full_model_path, hash_string)
      [] stage = "valid" -> get_valid_f_name(full_model_path, hash_string)
      [] stage = "test" -> get_test_f_name(full_model_path, hash_string)
      [] OTHER -> get_model_f_name(full_model_path, hash_string)

ArtifactKinds == {"model", "valid", "test", "train_time", "valid_time"}

---------------------------------------------------------------------------
(* File contents.                                                          *)

NoModel == [kind |-> "none"]

\* specific.train_model(module_path, X_train, y_train, cv_is): a
\* deterministic function of the submission and the fold.
train_model(full_model_path, cv_is) ==
    [kind |-> "trained", module |-> full_model_path, fold |-> cv_is.train]

\* specific.test_model(trained_model, X, cv_is): deterministic in the model
\* and the points it is tested on ("holdout" for cv_is = None).
test_model(trained_model, on) ==
    [kind |-> "predictions", model |-> trained_model, on |-> on]

\* end - start around the delegated call.  The clock is abstracted: the
\* elapsed time is the number of points the call works on.
train_time_of(cv_is) == Len(cv_is.train)

valid_time_of(cv_is) == Len(cv_is.valid)

TimeText(time) == [kind |-> "time", text |-> time]

Pickled(trained_model) == [kind |-> "pickle", model |-> trained_model]

\* A model file that pickle.load cannot read.
Truncated == [kind |-> "truncated"]

EmptyFile == [kind |-> "text", text |-> <<>>]

TextFile(text) == [kind |-> "text", text |-> text]

---------------------------------------------------------------------------
VARIABLES
    orig_models_df,           \* the caller's table: a sequence of rows
    models_df,                \* run_models' sorted copy
    pos,                      \* position of the loop in models_df
    bpc,                      \* "idle", "loop", "folds", "returned"
    mode,                     \* past_participle, error_state, method
    is_parallelize,           \* module-level toggle
    is_pickle_trained_model,  \* module-level toggle
    open_raises,              \* the environment: open(f_name, 'w') of a model file raises
    fs,                       \* [dirs, files]
    code,                     \* per idx: the submission's train/test code
    upc,                      \* each unit's position <<stage, phase>>
    umodel,                   \* each unit's trained_model
    uexc,                     \* the exception a failed unit raised
    wlog,                     \* each unit's file writes, in order
    attempts,                 \* per idx: calls of run_on_folds
    raised,                   \* per idx: a fold unit raised
    fs_at_entry,              \* fs when run_on_folds was entered
    predictions_list,         \* the candidates' validation predictions
    ground_truth_valid,       \* the validation labels of the fold
    best_index_list,          \* get_best_index_list's growing list
    improvement,              \* get_best_index_list's loop flag
    cpc,                      \* "start", "loop", "done"
    bc_in,                    \* best_indexes of the last best_combine call
    bc_out,                   \* what that call returned
    board,                    \* which leaderboard is computed
    fold_predictions,         \* per fold: the predictions and the labels
    selected_index_lists,     \* the index lists the selection is run on
    best_index_lists,         \* the lists get_best_index_list returned
    counts,                   \* the contributivity counts
    counted,                  \* how many of the lists have been counted
    lpc,                      \* "off", "start", "selected", "counting",
                              \* "scores", "calibrated_scores", "done", "raised"
    task,                     \* each get_scores task of the pool: its row,
                              \* its phase, where it failed
    leaderboard,              \* what the leaderboard function returned
    lexc,                     \* the exception that left it
    calls,                    \* the calls of get_hash_string_from_indices
    naming,                   \* a file name built and the hash read off it
    calib,                    \* a call of calibrate: its folds, its array
    db,                       \* the database session of the team tools
    setup,                    \* a call of setup_ground_truth
    combined_test             \* what make_combined_test_prediction combined

vars ==
    << orig_models_df, models_df, pos, bpc, mode, is_parallelize,
       is_pickle_trained_model, open_raises, fs, code, upc, umodel, uexc, wlog,
       attempts, raised, fs_at_entry, predictions_list, ground_truth_valid,
       best_index_list, improvement, cpc, bc_in, bc_out, board,
       fold_predictions, selected_index_lists, best_index_lists, counts,
       counted, lpc, task, leaderboard, lexc, calls, naming, calib, db,
       setup, combined_test >>

nameVars == << calls, naming, calib, db, setup, combined_test >>

readVars == << task, leaderboard, lexc, nameVars >>

boardVars ==
    << board, fold_predictions, selected_index_lists, best_index_lists,
       counts, counted, lpc, readVars >>

combineVars ==
    << predictions_list, ground_truth_valid, best_index_list, improvement,
       cpc, bc_in, bc_out >>

runnerVars ==
    << orig_models_df, models_df, pos, bpc, mode, is_parallelize,
       is_pickle_trained_model, open_raises, fs, code, upc, umodel, uexc, wlog,
       attempts, raised, fs_at_entry >>

tableVars ==
    << orig_models_df, models_df, pos, bpc, mode, attempts, fs_at_entry >>

configVars ==
    << is_parallelize, is_pickle_trained_model, open_raises, code, combineVars,
       boardVars >>

Idle == <<"idle", "idle">>
Done == <<"done", "done">>
Failed == <<"failed", "failed">>

NoExc == [type |-> "none", msg |-> <<>>]

NoMode == [past_participle |-> "", error_state |-> "", method |-> ""]

---------------------------------------------------------------------------
(* The file system.                                                        *)

FileExists(fsys, path) == path \in DOMAIN fsys.files

WriteFile(fsys, path, content) ==
    [ dirs |-> fsys.dirs,
      files |-> [ p \in (DOMAIN fsys.files) \cup {path} |->
                    IF p = path THEN content ELSE fsys.files[p] ] ]

\* open(path, 'a').close(): creates an empty file, keeps an existing one.
TouchFile(fsys, path) ==
    IF FileExists(fsys, path) THEN fsys ELSE WriteFile(fsys, path, EmptyFile)

\* os.remove(path)
RemoveFile(fsys, path) ==
    [ dirs |-> fsys.dirs,
      files |-> [ p \in (DOMAIN fsys.files) \ {path} |-> fsys.files[p] ] ]

\* os.mkdir(dir)
MkDir(fsys, dir) == [ dirs |-> fsys.dirs \cup {dir}, files |-> fsys.files ]

---------------------------------------------------------------------------
(* The submission being run and its folds.                                 *)

\* run_models: cv = specific.get_cv(y_test)
cv == get_cv(NTest)

model_df == models_df[pos]

full_model_path == get_full_model_path(model_df.idx, model_df)

hash_string(f) == get_hash_string_from_indices(cv[f].train)

\* Which delegated call of the submission raises on fold f, if any.
raises(f) == code[model_df.idx].raises[f]

\* The subdirectory a stage of the fold runner writes to or reads from.
Subdir(stage) == IF stage = "load" THEN "model" ELSE stage

\* What follows train_measure_and_pickle_on_fold in the three methods.
\* The validation step taken after every training.
AfterTrain_valid == <<"valid", "call">>

AfterTrain ==
    IF mode.method = "test_on_fold" THEN <<"test", "call">>
    ELSE <<"valid", "call">>

AfterTrainTime ==
    IF is_pickle_trained_model THEN <<"model", "check">> ELSE AfterTrain

\* The test step attached to the wrong method.
AfterValidTime_swapped ==
    IF mode.method = "train_and_valid_on_fold" THEN <<"test", "call">>
    ELSE Done

\* The test step taken by every method that validates.
AfterValidTime_tested == <<"test", "call">>

AfterValidTime ==
    IF mode.method = "train_valid_and_test_on_fold" THEN <<"test", "call">>
    ELSE Done

\* A unit raises: the exception leaves the method.
Raise(f, exc) ==
    /\ upc' = [upc EXCEPT ![f] = Failed]
    /\ uexc' = [uexc EXCEPT ![f] = exc]
    /\ raised' = [raised EXCEPT ![model_df.idx] = TRUE]

Goto(f, label) ==
    /\ upc' = [upc EXCEPT ![f] = label]
    /\ UNCHANGED << uexc, raised >>

Logged(f, path) == wlog' = [wlog EXCEPT ![f] = Append(@, path)]

---------------------------------------------------------------------------
(* run_on_folds: the units of one submission.                              *)

\* run_on_folds hands method(cv_is, full_model_path) to the worker pool, or
\* calls it in the loop once the calls before it have returned.
Dispatch(f) ==
    /\ bpc = "folds"
    /\ upc[f] = Idle
    /\ is_parallelize \/ \A g \in Folds :
           /\ upc[g] # Failed
           /\ g < f => upc[g] = Done
    /\ upc' = [upc EXCEPT ![f] =
                 IF mode.method = "test_on_fold" THEN <<"load", "check">>
                 ELSE <<"train", "call">>]
    /\ UNCHANGED << tableVars, configVars, fs, umodel, uexc, wlog,
                    raised >>

\* get_f_dir, first half: os.path.exists(dir).
get_f_dir_exists(f) ==
    /\ bpc = "folds"
    /\ upc[f][2] = "check"
    /\ upc' = [upc EXCEPT ![f] =
                 IF f_dir(full_model_path, Subdir(upc[f][1])) \in fs.dirs
                 THEN <<upc[f][1], "write">>
                 ELSE <<upc[f][1], "mkdir">>]
    /\ UNCHANGED << tableVars, configVars, fs, umodel, uexc, wlog,
                    raised >>

\* get_f_dir, second half: os.mkdir(dir), which raises OSError when the
\* directory has been created since the test.
get_f_dir_mkdir(f) ==
    /\ bpc = "folds"
    /\ upc[f][2] = "mkdir"
    /\ LET dir == f_dir(full_model_path, Subdir(upc[f][1]))
       IN  IF dir \in fs.dirs
           THEN /\ Raise(f, [type |-> "OSError", msg |-> <<"x">>])
                /\ UNCHANGED fs
           ELSE /\ fs' = MkDir(fs, dir)
                /\ Goto(f, <<upc[f][1], "write">>)
    /\ UNCHANGED << tableVars, configVars, umodel, wlog >>

\* train_on_fold: makes the submission importable, then calls
\* specific.train_model, which may raise.
train_on_fold(f) ==
    /\ bpc = "folds"
    /\ upc[f] = <<"train", "call">>
    /\ fs' = TouchFile(fs, init_py_f_name(full_model_path))
    /\ Logged(f, init_py_f_name(full_model_path))
    /\ IF raises(f) = "train"
       THEN /\ Raise(f, [type |-> "Exception", msg |-> code[model_df.idx].text])
            /\ UNCHANGED umodel
       ELSE /\ umodel' = [umodel EXCEPT ![f] =
                            train_model(full_model_path, cv[f])]
            /\ Goto(f, <<"train_time", "check">>)
    /\ UNCHANGED << tableVars, configVars >>

\* write_execution_time, for the train time and for the validation time.
write_execution_time(f) ==
    /\ bpc = "folds"
    /\ upc[f] \in { <<"train_time", "write">>, <<"valid_time", "write">> }
    /\ LET path == StageFile(upc[f][1], full_model_path, hash_string(f))
           time == IF upc[f][1] = "train_time" THEN train_time_of(cv[f])
                   ELSE valid_time_of(cv[f])
       IN  /\ fs' = WriteFile(fs, path, TimeText(time))
           /\ Logged(f, path)
    /\ Goto(f, IF upc[f][1] = "train_time" THEN AfterTrainTime
               ELSE AfterValidTime)
    /\ UNCHANGED << tableVars, configVars, umodel >>

\* pickle_trained_model: open(f_name, 'w') creates or empties the file and
\* pickle.dump writes it; on any exception of the two the handler logs it
\* and calls os.remove(f_name), which raises OSError when there is no such
\* file, and that exception leaves the method.
pickle_trained_model(f) ==
    /\ bpc = "folds"
    /\ upc[f] = <<"model", "write">>
    /\ LET path == get_model_f_name(full_model_path, hash_string(f))
       IN  IF open_raises
           THEN IF FileExists(fs, path)
                THEN /\ fs' = RemoveFile(fs, path)
                     /\ Logged(f, path)
                     /\ Goto(f, AfterTrain)
                ELSE /\ Raise(f, [type |-> "OSError", msg |-> <<"x">>])
                     /\ UNCHANGED << fs, wlog >>
           ELSE /\ \E dumped \in BOOLEAN :
                      fs' = IF dumped
                            THEN WriteFile(fs, path, Pickled(umodel[f]))
                            ELSE RemoveFile(fs, path)
                /\ Logged(f, path)
                /\ Goto(f, AfterTrain)
    /\ UNCHANGED << tableVars, configVars, umodel >>

\* test_trained_model with the exception of the delegated call swallowed.
test_trained_model_swallowing(f) ==
    /\ bpc = "folds"
    /\ upc[f] \in { <<"valid", "call">>, <<"test", "call">> }
    /\ Goto(f, <<upc[f][1], "check">>)
    /\ UNCHANGED << tableVars, configVars, fs, umodel, wlog >>

\* test_trained_model: calls specific.test_model on the validation points
\* of the fold or on the holdout set; the call may raise.
test_trained_model(f) ==
    /\ bpc = "folds"
    /\ upc[f] \in { <<"valid", "call">>, <<"test", "call">> }
    /\ IF raises(f) = upc[f][1]
       THEN Raise(f, [type |-> "Exception", msg |-> code[model_df.idx].text])
       ELSE Goto(f, <<upc[f][1], "check">>)
    /\ UNCHANGED << tableVars, configVars, fs, umodel, wlog >>

\* save_predictions, for the validation and for the test predictions.
save_predictions(f) ==
    /\ bpc = "folds"
    /\ upc[f] \in { <<"valid", "write">>, <<"test", "write">> }
    /\ LET path == StageFile(upc[f][1], full_model_path, hash_string(f))
           on == IF upc[f][1] = "valid" THEN cv[f].valid ELSE <<"holdout">>
       IN  /\ fs' = WriteFile(fs, path, test_model(umodel[f], on))
           /\ Logged(f, path)
    /\ Goto(f, IF upc[f][1] = "valid" THEN <<"valid_time", "check">> ELSE Done)
    /\ UNCHANGED << tableVars, configVars, umodel >>

\* test_on_fold going on to the test without retraining.
load_trained_model_no_retrain(f) ==
    /\ bpc = "folds"
    /\ upc[f] = <<"load", "write">>
    /\ LET path == get_model_f_name(full_model_path, hash_string(f))
       IN  IF FileExists(fs, path) /\ fs.files[path].kind = "pickle"
           THEN umodel' = [umodel EXCEPT ![f] = fs.files[path].model]
           ELSE UNCHANGED umodel
    /\ Goto(f, <<"test", "call">>)
    /\ UNCHANGED << tableVars, configVars, fs, wlog >>

\* test_on_fold's try block: open and unpickle the model file.  Only
\* IOError (no such file) is caught and leads to retraining.
load_trained_model(f) ==
    /\ bpc = "folds"
    /\ upc[f] = <<"load", "write">>
    /\ LET path == get_model_f_name(full_model_path, hash_string(f))
       IN  IF ~FileExists(fs, path)
           THEN /\ Goto(f, <<"train", "call">>)
                /\ UNCHANGED umodel
           ELSE IF fs.files[path].kind = "pickle"
           THEN /\ umodel' = [umodel EXCEPT ![f] = fs.files[path].model]
                /\ Goto(f, <<"test", "call">>)
           ELSE /\ Raise(f, [type |-> "EOFError", msg |-> <<"x">>])
                /\ UNCHANGED umodel
    /\ UNCHANGED << tableVars, configVars, fs, wlog >>

---------------------------------------------------------------------------
(* run_models: the batch executor.                                         *)

\* orig_models_df.sort("timestamp"): the rows in ascending order of
\* timestamp.  The sort is not a stable one, so rows of equal timestamp
\* come in any order.
SortedByTimestamp(df) ==
    { [ k \in 1..Len(df) |-> df[p[k]] ] :
        p \in { q \in [1..Len(df) -> 1..Len(df)] :
                  /\ \A a, b \in 1..Len(df) : a # b => q[a] # q[b]
                  /\ \A a, b \in 1..Len(df) :
                       a < b => df[q[a]].timestamp <= df[q[b]].timestamp } }

\* orig_models_df.loc[idx, 'state'] = value
SetState(df, idx, value) ==
    [ k \in 1..Len(df) |->
        IF df[k].idx = idx THEN [df[k] EXCEPT !.state = value] ELSE df[k] ]

UnitsReset ==
    /\ upc' = [f \in Folds |-> Idle]
    /\ umodel' = [f \in Folds |-> NoModel]
    /\ uexc' = [f \in Folds |-> NoExc]
    /\ wlog' = [f \in Folds |-> <<>>]

\* run_models sorting the caller's table in place.
run_models_in_place(past_participle, error_state, method) ==
    /\ bpc = "idle"
    /\ mode' = [past_participle |-> past_participle,
                error_state |-> error_state, method |-> method]
    /\ \E sorted \in SortedByTimestamp(orig_models_df) :
          /\ models_df' = sorted
          /\ orig_models_df' = sorted
    /\ pos' = 1
    /\ bpc' = IF Len(orig_models_df) = 0 THEN "returned" ELSE "loop"
    /\ UNCHANGED << attempts, fs_at_entry, configVars, fs, upc,
                    umodel, uexc, wlog, raised >>

\* Lines 423-431: the sorted copy, the early return on an empty table.
run_models(past_participle, error_state, method) ==
    /\ bpc = "idle"
    /\ mode' = [past_participle |-> past_participle,
                error_state |-> error_state, method |-> method]
    /\ \E sorted \in SortedByTimestamp(orig_models_df) : models_df' = sorted
    /\ pos' = 1
    /\ bpc' = IF Len(orig_models_df) = 0 THEN "returned" ELSE "loop"
    /\ UNCHANGED << orig_models_df, attempts, fs_at_entry, configVars, fs, upc,
                    umodel, uexc, wlog, raised >>

train_and_valid_models ==
    run_models("trained", "error", "train_and_valid_on_fold")

train_valid_and_test_models ==
    run_models("tested", "error", "train_valid_and_test_on_fold")

\* test_models with the error label of the training entry points.
test_models_error_label == run_models("tested", "error", "test_on_fold")

test_models == run_models("tested", "test_error", "test_on_fold")

\* Lines 433-435: a row whose state is ignore is skipped.
loop_continue ==
    /\ bpc = "loop"
    /\ pos <= Len(models_df)
    /\ model_df.state = "ignore"
    /\ pos' = pos + 1
    /\ UNCHANGED << orig_models_df, models_df, bpc, mode, attempts, fs_at_entry,
                    configVars, fs, upc, umodel, uexc, wlog, raised >>

\* run_on_folds entered for a row whatever its state.
loop_run_on_folds_any ==
    /\ bpc = "loop"
    /\ pos <= Len(models_df)
    /\ bpc' = "folds"
    /\ attempts' = [attempts EXCEPT ![model_df.idx] = @ + 1]
    /\ fs_at_entry' = fs
    /\ UNCHANGED << orig_models_df, models_df, pos, mode, configVars, fs,
                    upc, umodel, uexc, wlog, raised >>

\* Lines 437-443: run_on_folds is entered for the row.
loop_run_on_folds ==
    /\ bpc = "loop"
    /\ pos <= Len(models_df)
    /\ model_df.state # "ignore"
    /\ bpc' = "folds"
    /\ attempts' = [attempts EXCEPT ![model_df.idx] = @ + 1]
    /\ fs_at_entry' = fs
    /\ UNCHANGED << orig_models_df, models_df, pos, mode, configVars, fs,
                    upc, umodel, uexc, wlog, raised >>

\* The for loop is exhausted: run_models returns.
loop_end ==
    /\ bpc = "loop"
    /\ pos > Len(models_df)
    /\ bpc' = "returned"
    /\ UNCHANGED << orig_models_df, models_df, pos, mode, attempts, fs_at_entry,
                    configVars, fs, upc, umodel, uexc, wlog, raised >>

\* The state set as soon as one unit has completed.
run_models_succeeded_early ==
    /\ bpc = "folds"
    /\ \E f \in Folds : upc[f] = Done
    /\ orig_models_df' =
           SetState(orig_models_df, model_df.idx, mode.past_participle)
    /\ pos' = pos + 1
    /\ bpc' = "loop"
    /\ UnitsReset
    /\ UNCHANGED << models_df, mode, attempts, fs_at_entry, configVars, fs,
                    raised >>

\* Line 445: run_on_folds returned, every unit has completed.
run_models_succeeded ==
    /\ bpc = "folds"
    /\ \A f \in Folds : upc[f] = Done
    /\ orig_models_df' =
           SetState(orig_models_df, model_df.idx, mode.past_participle)
    /\ pos' = pos + 1
    /\ bpc' = "loop"
    /\ UnitsReset
    /\ UNCHANGED << models_df, mode, attempts, fs_at_entry, configVars, fs,
                    raised >>

\* The text of the exception the worker pool raises in the parent for a
\* unit's exception: the formatted traceback, arrows at the failing lines.
JoblibException(exc) ==
    [type |-> "JoblibException",
     msg |-> <<"J">> \o Marker \o <<"l">> \o exc.msg]

\* The exception that leaves run_on_folds: in the loop the first unit's
\* that raises; with the pool the one of the first unit, in the order of
\* dispatch, whose result is an exception, every unit before it having
\* returned.
Escaping ==
    { IF is_parallelize THEN JoblibException(uexc[f]) ELSE uexc[f] :
        f \in { g \in Folds :
                  /\ upc[g] = Failed
                  /\ is_parallelize => \A h \in Folds : h < g => upc[h] = Done } }

\* The text cut at the first occurrence of the marker (str.find).
error_msg_of_find(e) ==
    LET error_msg == e.msg
        hits == { k \in 0..Len(error_msg) : OccursAt(error_msg, Marker, k) }
        cut_exception_text ==
            IF hits = {} THEN -1 ELSE CHOOSE k \in hits : \A j \in hits : k <= j
    IN  IF cut_exception_text > 0
        THEN SliceFrom(error_msg, cut_exception_text)
        ELSE error_msg

\* Lines 453-458: the text written to <error_state>.txt.
error_msg_of(e) ==
    LET error_msg == e.msg
        cut_exception_text == rfind(error_msg, Marker)
    IN  IF cut_exception_text > 0
        THEN SliceFrom(error_msg, cut_exception_text)
        ELSE error_msg

\* run_models without the try: the exception leaves run_models.
run_models_uncaught ==
    /\ bpc = "folds"
    /\ Escaping # {}
    /\ bpc' = "returned"
    /\ UnitsReset
    /\ UNCHANGED << orig_models_df, models_df, pos, mode, attempts,
                    fs_at_entry, configVars, fs, raised >>

\* Lines 446-458: the except branch.  The units still running in the pool
\* are terminated where they are.
run_models_except ==
    /\ bpc = "folds"
    /\ \E e \in Escaping :
          fs' = WriteFile(fs, error_f_name(full_model_path, mode.error_state),
                          TextFile(error_msg_of(e)))
    /\ orig_models_df' =
           SetState(orig_models_df, model_df.idx, mode.error_state)
    /\ pos' = pos + 1
    /\ bpc' = "loop"
    /\ UnitsReset
    /\ UNCHANGED << models_df, mode, attempts, fs_at_entry, configVars, raised >>

---------------------------------------------------------------------------
(* Initial states.                                                         *)

Row(idx, timestamp, state) ==
    [idx |-> idx, team |-> 1 + (idx % 2), timestamp |-> timestamp,
     state |-> state]

\* A submission directory as fetch_models.py leaves it.
FreshFiles(df) ==
    { init_py_f_name(get_full_model_path(df[k].idx, df[k])) : k \in 1..Len(df) }

FreshDirs(df) ==
    { f_dir(get_full_model_path(df[k].idx, df[k]), ".") : k \in 1..Len(df) }

FreshFS(df) ==
    [ dirs |-> FreshDirs(df), files |-> [ p \in FreshFiles(df) |-> EmptyFile ] ]

\* The submission directories after an earlier batch that trained every
\* fold with is_pickle_trained_model set; with intact = FALSE the model
\* files are cut short (their writers were terminated).
CachedFS(df, intact) ==
    LET paths == { get_full_model_path(df[k].idx, df[k]) : k \in 1..Len(df) }
        cached == { <<q, f>> : q \in paths, f \in Folds }
        h(f) == get_hash_string_from_indices(cv[f].train)
        mfile(c) == get_model_f_name(c[1], h(c[2]))
        tfile(c) == get_train_time_f_name(c[1], h(c[2]))
    IN  [ dirs |-> FreshDirs(df)
                   \cup { f_dir(q, "model") : q \in paths }
                   \cup { f_dir(q, "train_time") : q \in paths },
          files |->
            [ p \in FreshFiles(df) \cup { mfile(c) : c \in cached }
                    \cup { tfile(c) : c \in cached } |->
                IF p \in FreshFiles(df) THEN EmptyFile
                ELSE IF p[2] = "train_time"
                THEN TimeText(Len(cv[1].train))
                ELSE IF intact
                THEN Pickled(train_model(p[1],
                        cv[CHOOSE f \in Folds : h(f) = p[3]]))
                ELSE Truncated ] ]

InitRunnerOpen(tables, codes, stores, parallel, pickle, opens) ==
    /\ orig_models_df \in tables
    /\ models_df = <<>>
    /\ pos = 1
    /\ bpc = "idle"
    /\ mode = NoMode
    /\ is_parallelize \in parallel
    /\ is_pickle_trained_model \in pickle
    /\ open_raises \in opens
    /\ fs \in { IF st = "fresh" THEN FreshFS(orig_models_df)
               ELSE CachedFS(orig_models_df, st = "cached") : st \in stores }
    /\ code \in codes
    /\ upc = [f \in Folds |-> Idle]
    /\ umodel = [f \in Folds |-> NoModel]
    /\ uexc = [f \in Folds |-> NoExc]
    /\ wlog = [f \in Folds |-> <<>>]
    /\ attempts = [i \in Rows |-> 0]
    /\ raised = [i \in Rows |-> FALSE]
    /\ fs_at_entry = fs

\* The environment lets every model file be opened for writing.
InitRunner(tables, codes, stores, parallel, pickle) ==
    InitRunnerOpen(tables, codes, stores, parallel, pickle, {FALSE})

\* A get_scores task that has not been dispatched.
TaskIdle ==
    [row |-> 1, phase |-> "idle", predictions_list |-> <<>>, exc |-> NoExc,
     at |-> "", scores |-> <<>>]

\* No leaderboard that reads the artifact files is being computed.
ReadOff ==
    /\ task = [f \in Folds |-> TaskIdle]
    /\ leaderboard = <<>>
    /\ lexc = NoExc
    /\ calls = <<>>
    /\ naming = [pc |-> "none"]
    /\ calib = [pc |-> "none"]
    /\ db = [pc |-> "none"]
    /\ setup = [pc |-> "none"]
    /\ combined_test = <<>>

\* No leaderboard is being computed.
BoardOff ==
    /\ ReadOff
    /\ board = "none"
    /\ fold_predictions = <<>>
    /\ selected_index_lists = <<>>
    /\ best_index_lists = <<>>
    /\ counts = <<>>
    /\ counted = 0
    /\ lpc = "off"

\* No combination is being computed.
CombineOff ==
    /\ predictions_list = <<>>
    /\ ground_truth_valid = <<>>
    /\ best_index_list = <<>>
    /\ improvement = FALSE
    /\ cpc = "off"
    /\ bc_in = <<>>
    /\ bc_out = <<>>

InitWith(tables, codes, stores, parallel, pickle) ==
    /\ InitRunner(tables, codes, stores, parallel, pickle)
    /\ CombineOff
    /\ BoardOff

\* What a submission's code does on each fold: which of its delegated
\* calls raises, and the text of the exception.
Behaviours ==
    [ raises : [Folds -> {"none", "train", "valid", "test"}], text : Messages ]

Sound == [ raises |-> [f \in Folds |-> "none"], text |-> <<"e">> ]

\* A faulty submission for each row of a batch: one call raises on one
\* fold, the call, the fold and the text varying with the row (the second
\* row raises during training).
Faulty(i) ==
    [ raises |-> [ f \in Folds |->
                     IF f = 1 + (i % NFold)
                     THEN <<"test", "train", "valid">>[1 + ((i - 1) % 3)]
                     ELSE "none" ],
      text |-> << <<>>, <<"e">>, <<"a">> \o Marker \o <<"e">>,
                  Marker \o <<"e">> >>[1 + ((i - 1) % 4)] ]

\* The tables of n rows with the given timestamps and states.
TablesOf(n, timestamps, states) ==
    { [ i \in 1..n |-> Row(i, ts[i], st[i]) ] :
        ts \in [1..n -> timestamps], st \in states }

\* The inputs of the model, in three families:
\*  - batches of NSub rows run in the loop, every pattern of ignored rows
\*    and of faulty submissions, timestamps with and without ties;
\*  - batches of NSub - 1 rows run by the worker pool;
\*  - a single submission with every behaviour of its code, each store an
\*    earlier batch can have left, both toggles either way.
InitBatch ==
    InitWith(TablesOf(NSub, 1..2,
                      [1..NSub -> {"new", "ignore"}]
                          \cup {[i \in 1..NSub |-> "error"]}),
             [Rows -> {Sound}] \cup
                 { [i \in Rows |-> IF i \in bad THEN Faulty(i) ELSE Sound] :
                     bad \in SUBSET Rows },
             {"fresh"}, {FALSE}, {FALSE})

InitPool ==
    InitWith({<<>>} \cup
                 TablesOf(NSub - 1, {1}, {[i \in 1..(NSub - 1) |-> "new"]}),
             { [i \in Rows |-> IF i \in bad THEN Faulty(i) ELSE Sound] :
                 bad \in SUBSET (1..(NSub - 1)) },
             {"fresh"}, {TRUE}, {FALSE})

InitSingle ==
    InitWith(TablesOf(1, {1}, {<<"new">>}),
             { [i \in Rows |-> IF i = 1 THEN b ELSE Sound] :
                 b \in { c \in Behaviours :
                           c.text \in {<<>>, Marker \o <<"e">>,
                                      <<"a">> \o Marker \o <<"e">>} } },
             {"fresh", "cached", "corrupt"}, BOOLEAN, BOOLEAN)

Init == InitBatch \/ InitPool \/ InitSingle

---------------------------------------------------------------------------
(* The greedy combination: best_combine and the loop that calls it.        *)

max_len_best_index_list == 80

Points == 1..NPts

\* The sum at point p of the listed predictions, candidate by candidate
\* from candidate c on: each counts as often as its index is listed.
RECURSIVE SumFrom(_, _, _, _)
SumFrom(preds, index_list, p, c) ==
    IF c > Len(preds) THEN 0
    ELSE Cardinality({ k \in DOMAIN index_list : index_list[k] = c - 1 })
             * preds[c].sum[p]
         + SumFrom(preds, index_list, p, c + 1)

SumAt(preds, index_list, p) == SumFrom(preds, index_list, p, 1)

\* specific.prediction_type.combine(predictions_list, index_list): the
\* arithmetic mean of the listed predictions, an index counting as often
\* as it is listed.  The mean is kept as the sum and the number of terms.
combine(preds, index_list) ==
    [ sum |-> [ p \in Points |-> SumAt(preds, index_list, p) ],
      n |-> Len(index_list) ]

Abs(x) == IF x < 0 THEN -x ELSE x

RECURSIVE ErrorUpTo(_, _, _)
ErrorUpTo(ground_truth, predictions, p) ==
    IF p = 0 THEN 0
    ELSE Abs(predictions.sum[p] - predictions.n * ground_truth[p])
         + ErrorUpTo(ground_truth, predictions, p - 1)

\* specific.score(ground_truth, predictions): a scalar, higher is better;
\* here minus the mean absolute error, as the fraction num / den.
score(ground_truth, predictions) ==
    [ num |-> 0 - ErrorUpTo(ground_truth, predictions, NPts),
      den |-> predictions.n ]

\* a > b on scores.
ScoreGreater(a, b) == a.num * b.den > b.num * a.den

\* The scan taken from the last candidate down to the first.
RECURSIVE ScanDown(_, _, _, _, _, _)
ScanDown(preds, ground_truth, best_indexes, i, best_predictions, best_index) ==
    IF i >= Len(preds) THEN best_index
    ELSE LET candidate == Len(preds) - 1 - i
             combined_predictions ==
                 combine(preds, Append(best_indexes, candidate))
         IN  IF ScoreGreater(score(ground_truth, combined_predictions),
                             score(ground_truth, best_predictions))
             THEN ScanDown(preds, ground_truth, best_indexes, i + 1,
                           combined_predictions, candidate)
             ELSE ScanDown(preds, ground_truth, best_indexes, i + 1,
                           best_predictions, best_index)

\* The scan with a candidate of equal score replacing the incumbent.
RECURSIVE ScanNonStrict(_, _, _, _, _, _)
ScanNonStrict(preds, ground_truth, best_indexes, i, best_predictions, best_index) ==
    IF i >= Len(preds) THEN best_index
    ELSE LET combined_predictions == combine(preds, Append(best_indexes, i))
         IN  IF ~ScoreGreater(score(ground_truth, best_predictions),
                              score(ground_truth, combined_predictions))
             THEN ScanNonStrict(preds, ground_truth, best_indexes, i + 1,
                                combined_predictions, i)
             ELSE ScanNonStrict(preds, ground_truth, best_indexes, i + 1,
                                best_predictions, best_index)

\* Lines 654-660: the scan over the candidates from i on, with the
\* incumbent best_predictions and its index.
RECURSIVE ScanFrom(_, _, _, _, _, _)
ScanFrom(preds, ground_truth, best_indexes, i, best_predictions, best_index) ==
    IF i >= Len(preds) THEN best_index
    ELSE LET combined_predictions == combine(preds, Append(best_indexes, i))
         IN  IF ScoreGreater(score(ground_truth, combined_predictions),
                             score(ground_truth, best_predictions))
             THEN ScanFrom(preds, ground_truth, best_indexes, i + 1,
                           combined_predictions, i)
             ELSE ScanFrom(preds, ground_truth, best_indexes, i + 1,
                           best_predictions, best_index)

\* The scan with every candidate compared to the input combination only:
\* the incumbent is not updated.
RECURSIVE ScanFixed(_, _, _, _, _)
ScanFixed(preds, ground_truth, best_indexes, i, best_index) ==
    IF i >= Len(preds) THEN best_index
    ELSE IF ScoreGreater(
                score(ground_truth, combine(preds, Append(best_indexes, i))),
                score(ground_truth, combine(preds, best_indexes)))
         THEN ScanFixed(preds, ground_truth, best_indexes, i + 1, i)
         ELSE ScanFixed(preds, ground_truth, best_indexes, i + 1, best_index)

best_combine_fixed_incumbent(preds, ground_truth, best_indexes) ==
    LET best_index == ScanFixed(preds, ground_truth, best_indexes, 0, -1)
    IN  IF best_index > -1 THEN Append(best_indexes, best_index)
        ELSE best_indexes

best_combine(preds, ground_truth, best_indexes) ==
    LET best_index == ScanFrom(preds, ground_truth, best_indexes, 0,
                               combine(preds, best_indexes), -1)
    IN  IF best_index > -1 THEN Append(best_indexes, best_index)
        ELSE best_indexes

\* The first index of a minimum instead.
argmin_valid_scores(preds, ground_truth) ==
    LET valid_scores ==
            [ k \in 1..Len(preds) |-> score(ground_truth, preds[k]) ]
        minimal ==
            { k \in 1..Len(preds) :
                \A j \in 1..Len(preds) :
                    ~ScoreGreater(valid_scores[k], valid_scores[j]) }
    IN  (CHOOSE k \in minimal : \A j \in minimal : k <= j) - 1

\* An argmax returning the last index of a maximum.
argmax_last(preds, ground_truth) ==
    LET valid_scores ==
            [ k \in 1..Len(preds) |-> score(ground_truth, preds[k]) ]
        maximal ==
            { k \in 1..Len(preds) :
                \A j \in 1..Len(preds) :
                    ~ScoreGreater(valid_scores[j], valid_scores[k]) }
    IN  (CHOOSE k \in maximal : \A j \in maximal : k >= j) - 1

\* np.argmax over the candidates' own scores: the first index of a maximum.
argmax_valid_scores(preds, ground_truth) ==
    LET valid_scores ==
            [ k \in 1..Len(preds) |-> score(ground_truth, preds[k]) ]
        maximal ==
            { k \in 1..Len(preds) :
                \A j \in 1..Len(preds) :
                    ~ScoreGreater(valid_scores[j], valid_scores[k]) }
    IN  (CHOOSE k \in maximal : \A j \in maximal : k <= j) - 1

\* Lines 826-833 of get_best_index_list.
get_best_index_list_start ==
    /\ cpc = "start"
    /\ best_index_list' =
           <<argmax_valid_scores(predictions_list, ground_truth_valid)>>
    /\ improvement' = TRUE
    /\ cpc' = "loop"
    /\ UNCHANGED << runnerVars, boardVars, predictions_list,
                    ground_truth_valid, bc_in, bc_out >>

\* Lines 835-839: one iteration of the loop.
get_best_index_list_iterate ==
    /\ cpc = "loop"
    /\ improvement
    /\ Len(best_index_list) < max_len_best_index_list
    /\ best_index_list' =
           best_combine(predictions_list, ground_truth_valid, best_index_list)
    /\ improvement' = (Len(best_index_list') # Len(best_index_list))
    /\ bc_in' = best_index_list
    /\ bc_out' = best_index_list'
    /\ UNCHANGED << runnerVars, boardVars, predictions_list,
                    ground_truth_valid, cpc >>

\* The loop condition fails.
get_best_index_list_return ==
    /\ cpc = "loop"
    /\ ~(improvement /\ Len(best_index_list) < max_len_best_index_list)
    /\ cpc' = "done"
    /\ UNCHANGED << runnerVars, boardVars, predictions_list,
                    ground_truth_valid, best_index_list, improvement, bc_in,
                    bc_out >>

\* The lists of at most MaxList candidate indices.
IndexLists ==
    UNION { [1..k -> 0..(NCand - 1)] : k \in 1..MaxList }

\* best_combine called on any list of indices.
best_combine_call ==
    /\ cpc = "start"
    /\ \E best_indexes \in IndexLists :
          /\ bc_in' = best_indexes
          /\ bc_out' = best_combine(predictions_list, ground_truth_valid,
                                    best_indexes)
    /\ cpc' = "called"
    /\ UNCHANGED << runnerVars, boardVars, predictions_list,
                    ground_truth_valid, best_index_list, improvement >>

\* The candidates' predictions and the labels of a fold.
Predictions == [ sum : [Points -> 0..MaxVal], n : {1} ]

InitCombine ==
    /\ InitRunner({<<>>}, {[i \in Rows |-> Sound]}, {"fresh"}, {FALSE},
                  {FALSE})
    /\ predictions_list \in [1..NCand -> Predictions]
    /\ ground_truth_valid \in [Points -> 0..MaxVal]
    /\ best_index_list = <<>>
    /\ improvement = FALSE
    /\ cpc = "start"
    /\ bc_in = <<>>
    /\ bc_out = <<>>
    /\ BoardOff

NextCombine ==
    \/ get_best_index_list_start
    \/ get_best_index_list_iterate
    \/ get_best_index_list_return
    \/ best_combine_call

SpecCombine == InitCombine /\ [][NextCombine]_vars

\* get_best_index_list alone, running on: a step that can be taken is
\* taken.
NextGreedy ==
    \/ get_best_index_list_start
    \/ get_best_index_list_iterate
    \/ get_best_index_list_return

SpecGreedy == InitCombine /\ [][NextGreedy]_vars /\ WF_vars(NextGreedy)

---------------------------------------------------------------------------
(* The combination leaderboards: the contributivity counts.                *)

\* The while loop of get_best_index_list run from best_index_list on.
RECURSIVE GreedyLoop(_, _, _)
GreedyLoop(preds, ground_truth, index_list) ==
    IF Len(index_list) >= max_len_best_index_list THEN index_list
    ELSE LET returned == best_combine(preds, ground_truth, index_list)
         IN  IF Len(returned) = Len(index_list) THEN index_list
             ELSE GreedyLoop(preds, ground_truth, returned)

\* get_best_index_list returning the positions in the sub-sample instead
\* of selected_index_list[best_index_list].
get_best_index_list_positions(all_predictions, ground_truth, selected_index_list) ==
    LET selected ==
            IF Len(selected_index_list) = 0
            THEN [ k \in 1..Len(all_predictions) |-> k - 1 ]
            ELSE selected_index_list
        preds == [ k \in 1..Len(selected) |-> all_predictions[selected[k] + 1] ]
    IN  GreedyLoop(preds, ground_truth,
                   <<argmax_valid_scores(preds, ground_truth)>>)

\* get_best_index_list on the candidates selected_index_list picks (all of
\* them when it is empty): the indices returned are those of models_df.
get_best_index_list(all_predictions, ground_truth, selected_index_list) ==
    LET selected ==
            IF Len(selected_index_list) = 0
            THEN [ k \in 1..Len(all_predictions) |-> k - 1 ]
            ELSE selected_index_list
        preds == [ k \in 1..Len(selected) |-> all_predictions[selected[k] + 1] ]
        best == GreedyLoop(preds, ground_truth,
                           <<argmax_valid_scores(preds, ground_truth)>>)
    IN  [ k \in 1..Len(best) |-> selected[best[k] + 1] ]

\* counts[best_index_list] += 1: an index listed several times counts once.
histogram_once(a, n) ==
    [ k \in 1..n |-> IF \E j \in DOMAIN a : a[j] = k - 1 THEN 1 ELSE 0 ]

\* np.histogram(a, bins=range(n + 1))[0]: bin k is [k, k + 1), the last
\* bin [n - 1, n].
histogram(a, n) ==
    [ k \in 1..n |->
        Cardinality({ j \in DOMAIN a :
                        /\ k - 1 <= a[j]
                        /\ IF k = n THEN a[j] <= k ELSE a[j] < k }) ]

\* random.sample(range(n), k)
Samples(n, k) ==
    { sample \in [1..k -> 0..(n - 1)] :
        \A a, b \in 1..k : a # b => sample[a] # sample[b] }

\* models_df.shape[0]
n_models == Len(fold_predictions[1].preds)

\* leaderboard_combination up to the selection: everybody is selected.
leaderboard_combination_start ==
    /\ lpc = "start"
    /\ board = "combination"
    /\ counts' = [ k \in 1..n_models |-> 0 ]
    /\ IF n_models # 0
       THEN /\ selected_index_lists' = << [ k \in 1..n_models |-> k - 1 ] >>
            /\ lpc' = "selected"
       ELSE /\ lpc' = "done"
            /\ UNCHANGED selected_index_lists
    /\ UNCHANGED << runnerVars, combineVars, readVars, board, fold_predictions,
                    best_index_lists, counted >>

\* leaderboard_combination_mean_of_scores up to the selection: two random
\* samples of nine tenths of the models.
leaderboard_combination_mean_of_scores_start ==
    /\ lpc = "start"
    /\ board = "combination_mean_of_scores"
    /\ counts' = [ k \in 1..n_models |-> 0 ]
    /\ IF n_models # 0
       THEN /\ selected_index_lists' \in
                   [ 1..2 -> Samples(n_models, (9 * n_models) \div 10) ]
            /\ lpc' = "selected"
       ELSE /\ lpc' = "done"
            /\ UNCHANGED selected_index_lists
    /\ UNCHANGED << runnerVars, combineVars, readVars, board, fold_predictions,
                    best_index_lists, counted >>

\* The pool's get_best_index_list calls, for hash_string in hash_strings
\* for selected_index_list in the lists, their results in that order.
leaderboard_gather ==
    /\ lpc = "selected"
    /\ LET m == Len(selected_index_lists)
       IN  best_index_lists' =
               [ t \in 1..(Len(fold_predictions) * m) |->
                   get_best_index_list(
                       fold_predictions[((t - 1) \div m) + 1].preds,
                       fold_predictions[((t - 1) \div m) + 1].ground_truth,
                       selected_index_lists[((t - 1) % m) + 1]) ]
    /\ lpc' = "counting"
    /\ UNCHANGED << runnerVars, combineVars, readVars, board, fold_predictions,
                    selected_index_lists, counts, counted >>

\* for best_index_list in best_index_lists: counts += np.histogram(...)[0]
leaderboard_count ==
    /\ lpc = "counting"
    /\ counted < Len(best_index_lists)
    /\ LET added == histogram(best_index_lists[counted + 1], n_models)
       IN  counts' = [ k \in 1..n_models |-> counts[k] + added[k] ]
    /\ counted' = counted + 1
    /\ UNCHANGED << runnerVars, combineVars, readVars, board, fold_predictions,
                    selected_index_lists, best_index_lists, lpc >>

\* The orders of the rows in which a column never falls from a row to the
\* next (rows equal in the column come in any order).
SortedAscending(rows, column) ==
    { [ k \in 1..Len(rows) |-> rows[p[k]] ] :
        p \in { q \in [1..Len(rows) -> 1..Len(rows)] :
                  /\ \A a, b \in 1..Len(rows) : a # b => q[a] # q[b]
                  /\ \A a, b \in 1..Len(rows) :
                        a < b => rows[q[a]][column] <= rows[q[b]][column] } }

\* DataFrame.sort(columns=[column], ascending=False): the orders of the
\* rows in which the column never rises from a row to the next.
SortedDescending(rows, column) ==
    { [ k \in 1..Len(rows) |-> rows[p[k]] ] :
        p \in { q \in [1..Len(rows) -> 1..Len(rows)] :
                  /\ \A a, b \in 1..Len(rows) : a # b => q[a] # q[b]
                  /\ \A a, b \in 1..Len(rows) :
                        a < b => rows[q[a]][column] >= rows[q[b]][column] } }

\* specific.prediction_type.combine on the test predictions of a fold: the
\* fold whose predictions were read and the indexes combined.
combine_test(fold, index_list) == [fold |-> fold, indexes |-> index_list]

\* Lines 846-868: the test predictions of every model of the fold are
\* read and combined over range(len(test_predictions_list)); the best of
\* the fold is test_predictions_list[0].
get_combined_test_predictions(fold, index_list) ==
    [hash_string |-> fold, best_index_list |-> index_list,
     combined_test_predictions |->
         combine_test(fold, [ k \in 1..n_models |-> k - 1 ]),
     foldwise_best_test_predictions |-> combine_test(fold, <<0>>)]

\* zip(hash_strings, best_index_lists): pairs by position, as many as the
\* shorter of the two.
zip(hashes, lists) ==
    [ k \in 1..(IF Len(hashes) < Len(lists) THEN Len(hashes) ELSE Len(lists))
        |-> <<hashes[k], lists[k]>> ]

\* Lines 871-882, under if test: the pool's get_combined_test_predictions
\* calls for the pairs of zip(hash_strings, best_index_lists).
make_combined_test_prediction ==
    /\ lpc = "counting"
    /\ counted = Len(best_index_lists)
    /\ LET pairs == zip([ f \in 1..Len(fold_predictions) |-> f ],
                        best_index_lists)
       IN  combined_test' =
               [ k \in DOMAIN pairs |->
                   get_combined_test_predictions(pairs[k][1], pairs[k][2]) ]
    /\ lpc' = "tested"
    /\ UNCHANGED << runnerVars, combineVars, task, leaderboard, lexc, calls,
                    naming, calib, db, setup, board, fold_predictions,
                    selected_index_lists, best_index_lists, counts, counted >>

\* The counting loop is exhausted, the test predictions are combined if
\* test is set: the table of the counts, indexed as models_df, is sorted by
\* contributivity and returned.
leaderboard_return ==
    /\ \/ lpc = "counting"
       \/ lpc = "tested"
    /\ counted = Len(best_index_lists)
    /\ leaderboard' \in
           SortedDescending([ k \in 1..n_models |->
                                [index |-> k - 1, contributivity |-> counts[k]] ],
                            "contributivity")
    /\ lpc' = "done"
    /\ UNCHANGED << runnerVars, combineVars, task, lexc, nameVars, board,
                    fold_predictions, selected_index_lists, best_index_lists,
                    counts, counted >>

\* Predictions and labels that are the same at every point.
Flat(v) == [ p \in Points |-> v ]

FlatPredictions == { [ sum |-> Flat(v), n |-> 1 ] : v \in 0..MaxVal }

\* n predictions for labels Flat(1) of which the first three are off the
\* labels, each in its own way, and improve on each other when combined.
Uneven(n) ==
    [ k \in 1..n |->
        [ sum |-> [ p \in Points |->
                      CASE k = 1 -> 0
                        [] k = 2 -> IF p = 1 THEN 0 ELSE MaxVal
                        [] k = 3 -> IF p = 1 THEN MaxVal ELSE 1
                        [] OTHER -> 1 ],
          n |-> 1 ] ]

\* The rotations of a list.
Rotations(list) ==
    { [ k \in 1..Len(list) |-> list[((k - 1 + r) % Len(list)) + 1] ] :
        r \in 0..(Len(list) - 1) }

\* The inputs of the leaderboards.  leaderboard_combination: no model, or
\* NCand models, flat with labels Flat(0) or Flat(1), or uneven;
\* the sampling leaderboard: one model, or NCand + 1 uneven ones.
InitBoard ==
    /\ InitRunner({<<>>}, {[i \in Rows |-> Sound]}, {"fresh"}, {FALSE},
                  {FALSE})
    /\ CombineOff
    /\ \/ /\ board = "combination"
          /\ \E n \in {0, NCand} :
                fold_predictions \in
                    [ Folds ->
                        [ preds : [1..n -> FlatPredictions],
                          ground_truth : {Flat(0), Flat(1)} ]
                        \cup [ preds : Rotations(Uneven(n)),
                               ground_truth : {Flat(1)} ] ]
       \/ /\ board = "combination_mean_of_scores"
          /\ \E n \in {1, NCand + 1} :
                fold_predictions \in
                    [ Folds -> [ preds : Rotations(Uneven(n)),
                                 ground_truth : {Flat(1)} ] ]
    /\ selected_index_lists = <<>>
    /\ best_index_lists = <<>>
    /\ counts = <<>>
    /\ counted = 0
    /\ lpc = "start"
    /\ ReadOff

NextBoard ==
    \/ leaderboard_combination_start
    \/ leaderboard_combination_mean_of_scores_start
    \/ leaderboard_gather
    \/ leaderboard_count
    \/ make_combined_test_prediction
    \/ leaderboard_return

SpecBoard == InitBoard /\ [][NextBoard]_vars

---------------------------------------------------------------------------
(* The leaderboards that read the artifact files.                          *)

\* The table the leaderboard functions are given.
board_models_df == orig_models_df

\* A prediction file and the value None.
PredictionsFile(predictions) ==
    [kind |-> "predictions", predictions |-> predictions]

None == [kind |-> "None"]

AttributeError == [type |-> "AttributeError", msg |-> <<"x">>]

\* Lines 476-491, the value: for each row the predictions read from
\* <submission>/<subdir>/<hash>.csv, None where open() raises IOError.
get_predictions_list(fsys, df, subdir, h) ==
    [ k \in 1..Len(df) |->
        LET predictions_path ==
                f_name_of(get_full_model_path(df[k].idx, df[k]), subdir, h, "csv")
        IN  IF FileExists(fsys, predictions_path)
            THEN fsys.files[predictions_path].predictions
            ELSE None ]

\* get_f_name on every row: get_f_dir creates the subdirectories it misses.
MkDirs(fsys, df, subdirs) ==
    [ dirs |-> fsys.dirs \cup
                 { f_dir(get_full_model_path(df[k].idx, df[k]), subdir) :
                     k \in 1..Len(df), subdir \in subdirs },
      files |-> fsys.files ]

\* Lines 476-491 called on its own, for a fold and a subdirectory.
get_predictions_list_call ==
    /\ lpc = "start"
    /\ board = "predictions_list"
    /\ \E f \in Folds, subdir \in {"valid", "test"} :
          /\ leaderboard' =
                 get_predictions_list(fs, board_models_df, subdir, hash_string(f))
          /\ fs' = MkDirs(fs, board_models_df, {subdir})
    /\ lpc' = "done"
    /\ UNCHANGED << tableVars, is_parallelize, is_pickle_trained_model, open_raises, code,
                    upc, umodel, uexc, wlog, raised, combineVars, board,
                    fold_predictions, selected_index_lists, best_index_lists,
                    counts, counted, task, lexc, nameVars >>

\* abs(float(f.read())) of a time file, 0 when open() raises IOError.
TimeRead(fsys, path) ==
    IF FileExists(fsys, path) THEN Abs(fsys.files[path].text) ELSE 0

ground_truth_path == <<"ground_truth">>

get_ground_truth_valid_f_name(h) ==
    f_name_of(ground_truth_path, "ground_truth_valid", h, "csv")

\* Lines 132-136: the fold identities read off the names of the files of
\* ground_truth_valid; they are kept as the folds they name.
get_hash_strings_from_ground_truth(fsys) ==
    { f \in Folds :
        FileExists(fsys, get_ground_truth_valid_f_name(hash_string(f))) }

hash_strings == get_hash_strings_from_ground_truth(fs)

num_cv_folds == Cardinality(hash_strings)

\* The sum of a row's times over the discovered folds among 1..f.
RECURSIVE TimeSum(_, _, _, _)
TimeSum(fsys, full_path, subdir, f) ==
    IF f = 0 THEN 0
    ELSE (IF f \in get_hash_strings_from_ground_truth(fsys)
          THEN TimeRead(fsys, f_name_of(full_path, subdir, hash_string(f), "csv"))
          ELSE 0)
         + TimeSum(fsys, full_path, subdir, f - 1)

ValueError == [type |-> "ValueError", msg |-> <<"x">>]

\* Lines 493-526: for each row the sums of its train and validation times
\* over the discovered folds, an absent file counting for 0, divided by
\* the number of folds and cut to an integer by int().  With no fold the
\* quotient of a row is 0.0 / 0, NaN, on which int() raises ValueError.
leaderboard_execution_times ==
    /\ lpc = "start"
    /\ board = "execution_times"
    /\ IF num_cv_folds = 0 /\ Len(board_models_df) # 0
       THEN /\ lexc' = ValueError
            /\ lpc' = "raised"
            /\ UNCHANGED << leaderboard, fs >>
       ELSE /\ leaderboard' =
                   [ k \in 1..Len(board_models_df) |->
                       LET full_path ==
                               get_full_model_path(board_models_df[k].idx,
                                                   board_models_df[k])
                       IN  [ train_time |->
                                 TimeSum(fs, full_path, "train_time", NFold)
                                     \div num_cv_folds,
                             test_time |->
                                 TimeSum(fs, full_path, "valid_time", NFold)
                                     \div num_cv_folds ] ]
            /\ fs' = MkDirs(fs, board_models_df, {"train_time", "valid_time"})
            /\ lpc' = "done"
            /\ UNCHANGED lexc
    /\ UNCHANGED << tableVars, is_parallelize, is_pickle_trained_model, open_raises, code,
                    upc, umodel, uexc, wlog, raised, combineVars, board,
                    fold_predictions, selected_index_lists, best_index_lists,
                    counts, counted, task, nameVars >>

\* What the steps of the mean-score leaderboard leave alone.
scoreFrame ==
    << tableVars, is_parallelize, is_pickle_trained_model, open_raises, code, upc, umodel,
       uexc, wlog, raised, combineVars, board, fold_predictions,
       selected_index_lists, best_index_lists, counts, counted, nameVars >>

TaskDispatched ==
    [row |-> 1, phase |-> "check", predictions_list |-> <<>>, exc |-> NoExc,
     at |-> "", scores |-> <<>>]

\* Lines 593-603: the zero scores; with rows in the table the pool is
\* handed one get_scores call per fold.
leaderboard_classicial_mean_of_scores ==
    /\ lpc = "start"
    /\ board \in {"mean_of_scores", "mean_of_scores_calibrated"}
    /\ IF Len(board_models_df) # 0
       THEN /\ task' = [f \in Folds |->
                           IF f \in hash_strings THEN TaskDispatched
                           ELSE TaskIdle]
            /\ lpc' = "scores"
            /\ UNCHANGED leaderboard
       ELSE /\ leaderboard' = <<>>
            /\ lpc' = "done"
            /\ UNCHANGED task
    /\ UNCHANGED << scoreFrame, fs, lexc >>

TaskRunning(f) == lpc \in {"scores", "calibrated_scores"}

TaskDir(f) ==
    f_dir(get_full_model_path(board_models_df[task[f].row].idx,
                              board_models_df[task[f].row]), "valid")

\* Lines 103: get_f_dir, os.path.exists(dir), in a get_scores task.
task_get_f_dir_exists(f) ==
    /\ TaskRunning(f)
    /\ task[f].phase = "check"
    /\ task' = [task EXCEPT ![f].phase =
                  IF TaskDir(f) \in fs.dirs THEN "read" ELSE "mkdir"]
    /\ UNCHANGED << scoreFrame, fs, lpc, leaderboard, lexc >>

\* Line 104: os.mkdir(dir), OSError when the directory exists by now.
task_get_f_dir_mkdir(f) ==
    /\ TaskRunning(f)
    /\ task[f].phase = "mkdir"
    /\ IF TaskDir(f) \in fs.dirs
       THEN /\ task' = [task EXCEPT ![f].phase = "failed",
                                    ![f].at = "mkdir",
                                    ![f].exc = [type |-> "OSError",
                                                msg |-> <<"x">>]]
            /\ UNCHANGED fs
       ELSE /\ fs' = MkDir(fs, TaskDir(f))
            /\ task' = [task EXCEPT ![f].phase = "read"]
    /\ UNCHANGED << scoreFrame, lpc, leaderboard, lexc >>

\* Lines 485-490 for one row: the predictions or None are appended; after
\* the last row get_scores goes on, to the calibration if it is asked for.
task_read_predictions(f) ==
    /\ TaskRunning(f)
    /\ task[f].phase = "read"
    /\ LET k == task[f].row
           read == get_predictions_list(fs, board_models_df, "valid",
                                        hash_string(f))[k]
       IN  task' = [task EXCEPT
                      ![f].predictions_list = Append(@, read),
                      ![f].row = k + 1,
                      ![f].phase =
                          IF k < Len(board_models_df) THEN "check"
                          ELSE IF lpc = "calibrated_scores" THEN "calibrate"
                          ELSE "score"]
    /\ UNCHANGED << scoreFrame, fs, lpc, leaderboard, lexc >>

\* calibrate and get_y_pred_array: the isotonic fit is abstracted to what
\* it guarantees of its output, probabilities clipped to [0, 1].
calibrate(predictions, ground_truth) ==
    [ sum |-> [ p \in Points |->
                  IF predictions.sum[p] > 1 THEN 1 ELSE predictions.sum[p] ],
      n |-> predictions.n ]

\* Lines 581-591: get_predictions() is called on every element of the
\* list; on None it raises AttributeError.
task_calibrate_predictions(f) ==
    /\ TaskRunning(f)
    /\ task[f].phase = "calibrate"
    /\ LET list == task[f].predictions_list
       IN  IF \E k \in DOMAIN list : list[k] = None
           THEN task' = [task EXCEPT ![f].phase = "failed",
                                     ![f].at = "calibrate",
                                     ![f].exc = AttributeError]
           ELSE task' = [task EXCEPT
                           ![f].predictions_list =
                               [ k \in DOMAIN list |->
                                   calibrate(list[k], Flat(1)) ],
                           ![f].phase = "score"]
    /\ UNCHANGED << scoreFrame, fs, lpc, leaderboard, lexc >>

\* specific.score.zero()
score_zero == [num |-> 0, den |-> 1]

\* Lines 562-564: the score of each element of the list.  What
\* specific.score does with None is not decided here: it raises, or it
\* returns a score.
task_score(f) ==
    /\ TaskRunning(f)
    /\ task[f].phase = "score"
    /\ LET list == task[f].predictions_list
       IN  \/ /\ \E k \in DOMAIN list : list[k] = None
              /\ task' = [task EXCEPT ![f].phase = "failed",
                                      ![f].at = "score",
                                      ![f].exc = AttributeError]
           \/ task' = [task EXCEPT
                         ![f].scores =
                             [ k \in DOMAIN list |->
                                 IF list[k] = None THEN score_zero
                                 ELSE score(Flat(1), list[k]) ],
                         ![f].phase = "done"]
    /\ UNCHANGED << scoreFrame, fs, lpc, leaderboard, lexc >>

\* np.mean(np.array(scores_list), axis=0) for row k: the sum of the
\* scores the tasks returned, over the number of tasks.
RECURSIVE ScoreSum(_, _)
ScoreSum(k, f) ==
    IF f = 0 THEN score_zero
    ELSE IF f \notin hash_strings THEN ScoreSum(k, f - 1)
    ELSE LET a == task[f].scores[k]
             b == ScoreSum(k, f - 1)
         IN  [num |-> a.num * b.den + b.num * a.den, den |-> a.den * b.den]

mean_scores ==
    [ k \in 1..Len(board_models_df) |->
        [num |-> ScoreSum(k, NFold).num,
         den |-> ScoreSum(k, NFold).den * num_cv_folds] ]

\* a <= b on scores.
ScoreAtMost(a, b) == ~ScoreGreater(a, b)

\* The sort on the score taken downwards.
SortedByScoreDescending(rows) ==
    { [ k \in 1..Len(rows) |-> rows[p[k]] ] :
        p \in { q \in [1..Len(rows) -> 1..Len(rows)] :
                  /\ \A a, b \in 1..Len(rows) : a # b => q[a] # q[b]
                  /\ \A a, b \in 1..Len(rows) :
                        a < b => ScoreAtMost(rows[q[b]].score, rows[q[a]].score) } }

\* leaderboard.sort(columns=['score']): the orders of the rows in which
\* the score never falls from a row to the next.
SortedByScore(rows) ==
    { [ k \in 1..Len(rows) |-> rows[p[k]] ] :
        p \in { q \in [1..Len(rows) -> 1..Len(rows)] :
                  /\ \A a, b \in 1..Len(rows) : a # b => q[a] # q[b]
                  /\ \A a, b \in 1..Len(rows) :
                        a < b => ScoreAtMost(rows[q[a]].score, rows[q[b]].score) } }

\* Lines 601-603 and 624-630: the pool has returned the scores; without
\* calibration the table of the mean scores, indexed as models_df, is
\* sorted by score and returned.
mean_of_scores_return ==
    /\ lpc = "scores"
    /\ board = "mean_of_scores"
    /\ \A f \in hash_strings : task[f].phase = "done"
    /\ leaderboard' \in
           SortedByScore([ k \in 1..Len(board_models_df) |->
                             [index |-> board_models_df[k].idx,
                              score |-> mean_scores[k]] ])
    /\ lpc' = "done"
    /\ UNCHANGED << scoreFrame, fs, task, lexc >>

\* Lines 611-615: with calibration the pool is handed the get_scores calls
\* once more, calibrate set.
mean_of_scores_calibrate ==
    /\ lpc = "scores"
    /\ board = "mean_of_scores_calibrated"
    /\ \A f \in hash_strings : task[f].phase = "done"
    /\ leaderboard' = [ k \in 1..Len(board_models_df) |->
                          [index |-> board_models_df[k].idx,
                           score |-> mean_scores[k]] ]
    /\ task' = [f \in Folds |->
                  IF f \in hash_strings THEN TaskDispatched ELSE TaskIdle]
    /\ lpc' = "calibrated_scores"
    /\ UNCHANGED << scoreFrame, fs, lexc >>

\* Lines 615 and 624-630: the calibrated scores are added as a column and
\* the table is sorted by score and returned.
mean_of_scores_calibrated_return ==
    /\ lpc = "calibrated_scores"
    /\ \A f \in hash_strings : task[f].phase = "done"
    /\ leaderboard' \in
           SortedByScore([ k \in 1..Len(board_models_df) |->
                             [index |-> leaderboard[k].index,
                              score |-> leaderboard[k].score,
                              calib_score |-> mean_scores[k]] ])
    /\ lpc' = "done"
    /\ UNCHANGED << scoreFrame, fs, task, lexc >>

\* The pool raises in the parent the exception of the first task, in the
\* order of dispatch, whose result is one: it leaves the leaderboard
\* function, which has no handler.
mean_of_scores_raise ==
    /\ lpc \in {"scores", "calibrated_scores"}
    /\ \E f \in Folds :
          /\ task[f].phase = "failed"
          /\ \A h \in hash_strings : h < f => task[h].phase = "done"
          /\ lexc' = task[f].exc
    /\ lpc' = "raised"
    /\ UNCHANGED << scoreFrame, fs, task, leaderboard >>

\* The stores the leaderboards are computed on: for every row and fold
\* each of the validation predictions, the train time and the validation
\* time is there or not, a subdirectory existing when a file is in it;
\* the labels of the discovered folds are in ground_truth_valid (of one
\* fold or more for the leaderboards of scores).
ReadFiles(df) ==
    { <<get_full_model_path(df[k].idx, df[k]), subdir, hash_string(f), "csv">> :
        k \in 1..Len(df), subdir \in {"valid", "train_time", "valid_time"},
        f \in Folds }

ReadFS(df, present, discovered) ==
    [ dirs |-> FreshDirs(df) \cup { f_dir(p[1], p[2]) : p \in present }
                   \cup {f_dir(ground_truth_path, "ground_truth_valid")},
      files |->
        [ p \in FreshFiles(df) \cup present
                \cup { get_ground_truth_valid_f_name(hash_string(f)) :
                         f \in discovered } |->
            IF p \in FreshFiles(df) THEN EmptyFile
            ELSE IF p[2] = "ground_truth_valid"
            THEN [kind |-> "ground_truth", ground_truth |-> Flat(1)]
            ELSE IF p[2] = "valid"
            THEN PredictionsFile([sum |-> Flat(p[1][3] % (MaxVal + 1)), n |-> 1])
            ELSE TimeText(p[1][3] + 1) ] ]

InitRead ==
    /\ orig_models_df \in
           {<<>>} \cup TablesOf(NSub - 1, {1}, {[i \in 1..(NSub - 1) |-> "tested"]})
    /\ models_df = <<>>
    /\ pos = 1
    /\ bpc = "idle"
    /\ mode = NoMode
    /\ is_parallelize = TRUE
    /\ is_pickle_trained_model = FALSE
    /\ open_raises = FALSE
    /\ board \in {"predictions_list", "execution_times", "mean_of_scores",
                  "mean_of_scores_calibrated"}
    /\ \E present \in SUBSET ReadFiles(orig_models_df) :
          /\ board = "execution_times" => \A p \in present : p[2] # "valid"
          /\ board # "execution_times" => \A p \in present : p[2] = "valid"
          /\ \E discovered \in SUBSET Folds :
                /\ board \in {"mean_of_scores", "mean_of_scores_calibrated"}
                       => discovered # {}
                /\ board = "predictions_list" => discovered = Folds
                /\ fs = ReadFS(orig_models_df, present, discovered)
    /\ code = [i \in Rows |-> Sound]
    /\ upc = [f \in Folds |-> Idle]
    /\ umodel = [f \in Folds |-> NoModel]
    /\ uexc = [f \in Folds |-> NoExc]
    /\ wlog = [f \in Folds |-> <<>>]
    /\ attempts = [i \in Rows |-> 0]
    /\ raised = [i \in Rows |-> FALSE]
    /\ fs_at_entry = fs
    /\ CombineOff
    /\ fold_predictions = <<>>
    /\ selected_index_lists = <<>>
    /\ best_index_lists = <<>>
    /\ counts = <<>>
    /\ counted = 0
    /\ lpc = "start"
    /\ ReadOff

TaskStep(f) ==
    \/ task_get_f_dir_exists(f)
    \/ task_get_f_dir_mkdir(f)
    \/ task_read_predictions(f)
    \/ task_calibrate_predictions(f)
    \/ task_score(f)

NextRead ==
    \/ get_predictions_list_call
    \/ leaderboard_execution_times
    \/ leaderboard_classicial_mean_of_scores
    \/ \E f \in Folds : TaskStep(f)
    \/ mean_of_scores_return
    \/ mean_of_scores_calibrate
    \/ mean_of_scores_calibrated_return
    \/ mean_of_scores_raise

SpecRead == InitRead /\ [][NextRead]_vars


---------------------------------------------------------------------------
(* Fold identities and the file names that carry them.                     *)
(* A path is a sequence of pieces: "/" and "." stand alone, every other    *)
(* piece is a run of characters that holds neither (a directory name, a    *)
(* hexdigest, an extension).                                               *)

\* The index vectors identities are computed of.
IndexVectors ==
    UNION { [1..n -> 0..(MaxIndex - 1)] : n \in 0..MaxVector }

\* The hash of a vector by a hasher that is not created by the call but
\* kept from call to call: the digest covers the vectors of the earlier
\* calls too.
RECURSIVE Fed(_)
Fed(log) ==
    IF log = <<>> THEN <<>>
    ELSE Fed(SubSeq(log, 1, Len(log) - 1)) \o log[Len(log)].index_list

get_hash_string_from_indices_shared(index_list) ==
    ToString(md5_update(Fed(calls) \o index_list))

\* The call with the hasher kept from call to call.
get_hash_string_from_indices_call_shared ==
    /\ Len(calls) < MaxCalls
    /\ \E index_list \in IndexVectors, caller \in Rows :
          calls' = Append(calls,
                          [caller |-> caller, index_list |-> index_list,
                           hash_string |->
                               get_hash_string_from_indices_shared(index_list)])
    /\ UNCHANGED << runnerVars, combineVars, board, fold_predictions,
                    selected_index_lists, best_index_lists, counts, counted,
                    lpc, task, leaderboard, lexc, naming, calib, db,
                    setup, combined_test >>

\* Lines 36-50 called on a vector, by any caller at any time: the hasher
\* is created by the call.
get_hash_string_from_indices_call ==
    /\ Len(calls) < MaxCalls
    /\ \E index_list \in IndexVectors, caller \in Rows :
          calls' = Append(calls,
                          [caller |-> caller, index_list |-> index_list,
                           hash_string |->
                               get_hash_string_from_indices(index_list)])
    /\ UNCHANGED << runnerVars, combineVars, board, fold_predictions,
                    selected_index_lists, best_index_lists, counts, counted,
                    lpc, task, leaderboard, lexc, naming, calib, db,
                    setup, combined_test >>

\* os.path.join(a, b)
os_path_join(a, b) ==
    IF b # <<>> /\ b[1] = "/" THEN b
    ELSE IF a = <<>> \/ a[Len(a)] = "/" THEN a \o b
    ELSE a \o <<"/">> \o b

\* Lines 101-109, the name: <full_model_path>/<subdir>/<f_name>.<extension>
get_f_name(full_path, subdir, f_name, extension) ==
    os_path_join(os_path_join(full_path, <<subdir>>),
                 <<f_name, ".", extension>>)

\* str.split(sep): the pieces between the occurrences of sep.
RECURSIVE split(_, _)
split(string, sep) ==
    IF \A k \in DOMAIN string : string[k] # sep THEN <<string>>
    ELSE LET first == CHOOSE k \in DOMAIN string :
                          /\ string[k] = sep
                          /\ \A j \in 1..(k - 1) : string[j] # sep
         IN  <<SubSeq(string, 1, first - 1)>>
             \o split(SubSeq(string, first + 1, Len(string)), sep)

\* The hash read off the whole path, not off its last component.
get_hash_string_from_path_whole(path) ==
    LET parts == split(path, ".")
    IN  parts[Len(parts) - 1]

\* Line 68: path.split('/')[-1].split('.')[-2]
get_hash_string_from_path(path) ==
    LET components == split(path, "/")
        parts == split(components[Len(components)], ".")
    IN  parts[Len(parts) - 1]

\* The directories of the submissions.
ModelPaths ==
    UNION { [1..n -> {"/", ".", "m"}] : n \in 1..MaxPath }

\* The extension get_f_name is given for an artifact kind.
ExtensionOf(subdir) == IF subdir = "model" THEN "p" ELSE "csv"

\* get_f_name on a submission directory, an artifact kind and the identity
\* of an index vector.
get_f_name_call ==
    /\ naming.pc \in {"none", "read"}
    /\ \E full_path \in ModelPaths, subdir \in ArtifactKinds,
          index_list \in IndexVectors :
          LET h == get_hash_string_from_indices(index_list)
          IN  naming' = [pc |-> "built", full_model_path |-> full_path,
                         subdir |-> subdir, hash_string |-> h,
                         f_name |-> get_f_name(full_path, subdir, h,
                                               ExtensionOf(subdir)),
                         read |-> <<>>]
    /\ UNCHANGED << runnerVars, combineVars, board, fold_predictions,
                    selected_index_lists, best_index_lists, counts, counted,
                    lpc, task, leaderboard, lexc, calls, calib, db,
                    setup, combined_test >>

\* get_hash_string_from_path on the name built.
get_hash_string_from_path_call ==
    /\ naming.pc = "built"
    /\ naming' = [naming EXCEPT
                    !.pc = "read",
                    !.read = get_hash_string_from_path(naming.f_name)]
    /\ UNCHANGED << runnerVars, combineVars, board, fold_predictions,
                    selected_index_lists, best_index_lists, counts, counted,
                    lpc, task, leaderboard, lexc, calls, calib, db,
                    setup, combined_test >>

InitNames ==
    /\ InitRunner({<<>>}, {[i \in Rows |-> Sound]}, {"fresh"}, {FALSE},
                  {FALSE})
    /\ CombineOff
    /\ BoardOff

NextNames ==
    \/ get_f_name_call
    \/ get_hash_string_from_path_call

SpecNames == InitNames /\ [][NextNames]_vars

NextIdentity == get_hash_string_from_indices_call

SpecIdentity == InitNames /\ [][NextIdentity]_vars

---------------------------------------------------------------------------
(* calibrate: the 2-fold self-calibration.                                 *)

\* The points of the held-out set.
CalibPoints(n) == 0..(n - 1)

\* The classes of which both halves of a split hold a point.
Stratified(ground_truth, fold1_is, fold2_is) ==
    \A c \in {0, 1} :
        Cardinality({ i \in DOMAIN ground_truth : ground_truth[i] = c }) >= 2
        => /\ \E i \in fold1_is : ground_truth[i + 1] = c
           /\ \E i \in fold2_is : ground_truth[i + 1] = c

\* list(StratifiedShuffleSplit(ground_truth, n_iter=1, test_size=0.5))[0]:
\* the test half holds ceil(n / 2) points, the train half the others.
StratifiedShuffleSplit(ground_truth) ==
    LET n == Len(ground_truth)
    IN  { <<fold1_is, fold2_is>> \in
              (SUBSET CalibPoints(n)) \X (SUBSET CalibPoints(n)) :
            /\ Cardinality(fold2_is) = (n + 1) \div 2
            /\ fold1_is = CalibPoints(n) \ fold2_is
            /\ Stratified(ground_truth, fold1_is, fold2_is) }

\* The folds with the second pair not swapped.
folds_unswapped(fold1_is, fold2_is) ==
    << <<fold1_is, fold2_is>>, <<fold1_is, fold2_is>> >>

\* Line 571: folds = [(fold1_is, fold2_is), (fold2_is, fold1_is)]
folds(fold1_is, fold2_is) ==
    << <<fold1_is, fold2_is>>, <<fold2_is, fold1_is>> >>

\* A row of np.empty: whatever the memory held.
Uninitialized == [written |-> FALSE, fitted_on |-> {}]

\* Lines 567-572: the split, the empty array, the calibrator.
calibrate_split ==
    /\ calib.pc = "start"
    /\ \E halves \in StratifiedShuffleSplit(calib.ground_truth) :
          calib' = [calib EXCEPT
                      !.pc = "folds",
                      !.folds = folds(halves[1], halves[2]),
                      !.k = 1,
                      !.calibrated_proba_array =
                          [ i \in CalibPoints(Len(calib.ground_truth)) |->
                              Uninitialized ]]
    /\ UNCHANGED << runnerVars, combineVars, board, fold_predictions,
                    selected_index_lists, best_index_lists, counts, counted,
                    lpc, task, leaderboard, lexc, calls, naming, db,
                    setup, combined_test >>

\* Lines 574-578, one pass of the loop: the calibrator is fitted on the
\* train half (fit forgets an earlier fit) and the rows of the test half
\* are what it predicts.
calibrate_fold ==
    /\ calib.pc = "folds"
    /\ calib.k <= Len(calib.folds)
    /\ LET fold_train_is == calib.folds[calib.k][1]
           fold_test_is == calib.folds[calib.k][2]
       IN  calib' = [calib EXCEPT
                       !.k = @ + 1,
                       !.calibrated_proba_array =
                           [ i \in DOMAIN @ |->
                               IF i \in fold_test_is
                               THEN [written |-> TRUE,
                                     fitted_on |-> fold_train_is]
                               ELSE @[i] ]]
    /\ UNCHANGED << runnerVars, combineVars, board, fold_predictions,
                    selected_index_lists, best_index_lists, counts, counted,
                    lpc, task, leaderboard, lexc, calls, naming, db,
                    setup, combined_test >>

\* Line 579: return calibrated_proba_array
calibrate_return ==
    /\ calib.pc = "folds"
    /\ calib.k > Len(calib.folds)
    /\ calib' = [calib EXCEPT !.pc = "done"]
    /\ UNCHANGED << runnerVars, combineVars, board, fold_predictions,
                    selected_index_lists, best_index_lists, counts, counted,
                    lpc, task, leaderboard, lexc, calls, naming, db,
                    setup, combined_test >>

\* The held-out sets: NCalib - 1 or NCalib points of two classes, each
\* class with a point.
InitCalibrate ==
    /\ InitRunner({<<>>}, {[i \in Rows |-> Sound]}, {"fresh"}, {FALSE},
                  {FALSE})
    /\ CombineOff
    /\ board = "none"
    /\ fold_predictions = <<>>
    /\ selected_index_lists = <<>>
    /\ best_index_lists = <<>>
    /\ counts = <<>>
    /\ counted = 0
    /\ lpc = "off"
    /\ task = [f \in Folds |-> TaskIdle]
    /\ leaderboard = <<>>
    /\ lexc = NoExc
    /\ calls = <<>>
    /\ naming = [pc |-> "none"]
    /\ db = [pc |-> "none"]
    /\ setup = [pc |-> "none"]
    /\ combined_test = <<>>
    /\ \E n \in {NCalib - 1, NCalib} :
          \E ground_truth \in [1..n -> {0, 1}] :
              /\ \A c \in {0, 1} : \E i \in 1..n : ground_truth[i] = c
              /\ calib = [pc |-> "start", ground_truth |-> ground_truth,
                          folds |-> <<>>, k |-> 1,
                          calibrated_proba_array |-> <<>>]

NextCalibrate ==
    \/ calibrate_split
    \/ calibrate_fold
    \/ calibrate_return

SpecCalibrate == InitCalibrate /\ [][NextCalibrate]_vars

---------------------------------------------------------------------------
(* rampdb.tools.team: signing a team up to an event.  The tests build a    *)
(* fresh database, call the tool and query the tables; the tool itself is  *)
(* taken from what the tests say of it.                                    *)

\* test_testing.py line 75: the users add_users adds.
Usernames == {"test_user", "test_user_2", "test_iris_admin"}

\* The events add_events adds, one per problem (test_testing.py line 85).
EventNames == {"iris_test", "boston_housing_test"}

\* None in a name column.
NoName == "None"

NoCall == [op |-> "", event_name |-> "", username |-> ""]

\* A new EventTeam row, as test_ask_sign_up_team finds it (lines 55-63).
EventTeam(event_name, username) ==
    [event |-> event_name, team |-> username, is_active |-> TRUE,
     approved |-> FALSE, last_submission_name |-> NoName]

\* The fixture without the drop_all of its finally clause: the row
\* test_ask_sign_up_team added is still there.
session_scope_function_kept(n_cv_folds) ==
    [pc |-> "idle", n_calls |-> 0, call |-> NoCall,
     n_cv_folds |-> n_cv_folds,
     event_teams |-> << EventTeam("iris_test", "test_user") >>,
     submissions |-> <<>>, cv_folds |-> <<>>]

\* The fixture: a database just created, with the users, the problems and
\* the events added, and no team signed up.  n_cv_folds is the number of
\* cross-validation folds of each event.
session_scope_function(n_cv_folds) ==
    [pc |-> "idle", n_calls |-> 0, call |-> NoCall,
     n_cv_folds |-> n_cv_folds,
     event_teams |-> <<>>, submissions |-> <<>>, cv_folds |-> <<>>]

\* The EventTeam rows of a team in an event, by position in the table.
event_team_of(d, event_name, username) ==
    { i \in DOMAIN d.event_teams :
        /\ d.event_teams[i].event = event_name
        /\ d.event_teams[i].team = username }

\* ask_sign_up_team: the team asks; an EventTeam row is added, active and
\* not approved.
ask_sign_up_team(d, event_name, username) ==
    [d EXCEPT !.event_teams = Append(@, EventTeam(event_name, username))]

\* The per-fold rows of a new submission: one per fold of the event, not
\* trained.
SubmissionOnCVFolds(d, event_name, submission) ==
    [ k \in 1..d.n_cv_folds[event_name] |->
        [submission |-> submission, cv_fold |-> k, state |-> "new",
         best |-> FALSE, contributivity |-> 0] ]

\* Submitting the files of a directory under a name for an event team:
\* the Submission row, its file, its per-fold rows, and the name recorded
\* on the event team.
add_submission(d, event_name, username, submission_name) ==
    LET event_team == CHOOSE i \in event_team_of(d, event_name, username) :
                          TRUE
        submission == Len(d.submissions) + 1
    IN  [d EXCEPT
           !.submissions =
               Append(@, [name |-> submission_name,
                          event_team |-> event_team,
                          files |-> << [name |-> "classifier",
                                        extension |-> "py"] >>]),
           !.cv_folds = @ \o SubmissionOnCVFolds(d, event_name, submission),
           !.event_teams[event_team].last_submission_name =
               submission_name]

\* sign_up_team: the team asks, the starting kit is submitted as its
\* sandbox without being trained, and the event team is approved.
sign_up_team(d, event_name, username) ==
    LET asked == ask_sign_up_team(d, event_name, username)
        submitted == add_submission(asked, event_name, username,
                                    "starting_kit")
        event_team == CHOOSE i \in
                          event_team_of(submitted, event_name, username) :
                          TRUE
    IN  [submitted EXCEPT !.event_teams[event_team].approved = TRUE]

\* A call of ask_sign_up_team, as in test_ask_sign_up_team, for a team that
\* has not asked yet.
ask_sign_up_team_call ==
    /\ db.pc = "idle"
    /\ db.n_calls < MaxSignUps
    /\ \E event_name \in EventNames, username \in Usernames :
          /\ event_team_of(db, event_name, username) = {}
          /\ db' = [ask_sign_up_team(db, event_name, username) EXCEPT
                      !.n_calls = @ + 1,
                      !.call = [op |-> "ask_sign_up_team",
                                event_name |-> event_name,
                                username |-> username]]
    /\ UNCHANGED << runnerVars, combineVars, board, fold_predictions,
                    selected_index_lists, best_index_lists, counts, counted,
                    lpc, task, leaderboard, lexc, calls, naming, calib,
                    setup, combined_test >>

\* A call of sign_up_team, as in test_sign_up_team, for a team that has not
\* asked yet.
sign_up_team_call ==
    /\ db.pc = "idle"
    /\ db.n_calls < MaxSignUps
    /\ \E event_name \in EventNames, username \in Usernames :
          /\ event_team_of(db, event_name, username) = {}
          /\ db' = [sign_up_team(db, event_name, username) EXCEPT
                      !.n_calls = @ + 1,
                      !.call = [op |-> "sign_up_team",
                                event_name |-> event_name,
                                username |-> username]]
    /\ UNCHANGED << runnerVars, combineVars, board, fold_predictions,
                    selected_index_lists, best_index_lists, counts, counted,
                    lpc, task, leaderboard, lexc, calls, naming, calib,
                    setup, combined_test >>

InitTeams ==
    /\ InitRunner({<<>>}, {[i \in Rows |-> Sound]}, {"fresh"}, {FALSE},
                  {FALSE})
    /\ CombineOff
    /\ board = "none"
    /\ fold_predictions = <<>>
    /\ selected_index_lists = <<>>
    /\ best_index_lists = <<>>
    /\ counts = <<>>
    /\ counted = 0
    /\ lpc = "off"
    /\ task = [f \in Folds |-> TaskIdle]
    /\ leaderboard = <<>>
    /\ lexc = NoExc
    /\ calls = <<>>
    /\ naming = [pc |-> "none"]
    /\ calib = [pc |-> "none"]
    /\ setup = [pc |-> "none"]
    /\ combined_test = <<>>
    /\ \E n_cv_folds \in [EventNames -> 0..NFold] :
          db = session_scope_function(n_cv_folds)

NextTeams ==
    \/ ask_sign_up_team_call
    \/ sign_up_team_call

SpecTeams == InitTeams /\ [][NextTeams]_vars

---------------------------------------------------------------------------
(* rampdb.testing: filling the test database.  The tests call the helpers  *)
(* once, then again, and say which error the second call raises; the       *)
(* helpers themselves are taken from what the tests say of them.           *)

\* test_testing.py line 85: the problems add_problems adds, in order.
ProblemNames == << "iris", "boston_housing" >>

\* The event of a problem.
EventOf(problem) == IF problem = "iris" THEN "iris_test"
                    ELSE "boston_housing_test"

\* The users, in the order add_users adds them.
UserList == << "test_user", "test_user_2", "test_iris_admin" >>

NoError == [type |-> "none", msg |-> ""]

\* Line 76
NameClashError == [type |-> "NameClashError",
                   msg |-> "username is already in use"]

\* Line 58
KitCloned == [type |-> "ValueError",
              msg |-> "The RAMP kit repository was previously cloned."]

\* Line 65
DataCloned == [type |-> "ValueError",
               msg |-> "The RAMP data repository was previously cloned."]

\* Lines 96-97: a ValueError, whatever it says.
Overwrite == [type |-> "ValueError", msg |-> "overwrite"]

Range(seq) == { seq[i] : i \in DOMAIN seq }

\* Lines 42-53: create_test_db: no row in any table, nothing cloned.
create_test_db ==
    [users |-> <<>>, problems |-> <<>>, events |-> <<>>, kits |-> {},
     data |-> {}, exc |-> NoError]

\* add_users: the first user whose name is in use raises NameClashError;
\* the rows before it are added.
RECURSIVE add_users_from(_, _)
add_users_from(t, k) ==
    IF k > Len(UserList) THEN t
    ELSE IF UserList[k] \in Range(t.users)
         THEN [t EXCEPT !.exc = NameClashError]
         ELSE add_users_from([t EXCEPT !.users = Append(@, UserList[k])],
                             k + 1)

add_users(t) == add_users_from(t, 1)

\* setup_ramp_kits_ramp_data that clones over what is there, force or not.
setup_ramp_kits_ramp_data_over(t, problem, force) ==
    [t EXCEPT !.kits = @ \cup {problem}, !.data = @ \cup {problem}]

\* setup_ramp_kits_ramp_data: clones the kit and the data of a problem; a
\* kit or a data directory already there raises ValueError unless force is
\* set, and then it is replaced.
setup_ramp_kits_ramp_data(t, problem, force) ==
    IF ~force /\ problem \in t.kits THEN [t EXCEPT !.exc = KitCloned]
    ELSE IF ~force /\ problem \in t.data
         THEN [t EXCEPT !.kits = @ \cup {problem}, !.exc = DataCloned]
         ELSE [t EXCEPT !.kits = @ \cup {problem},
                        !.data = @ \cup {problem}]

\* add_problems: for each problem, the kit and the data are set up and the
\* row is added; the first error ends it.
RECURSIVE add_problems_from(_, _)
add_problems_from(t, k) ==
    IF k > Len(ProblemNames) THEN t
    ELSE LET problem == ProblemNames[k]
             cloned == setup_ramp_kits_ramp_data(t, problem, FALSE)
         IN  IF cloned.exc # NoError THEN cloned
             ELSE IF problem \in Range(cloned.problems)
                  THEN [cloned EXCEPT !.exc = Overwrite]
                  ELSE add_problems_from(
                           [cloned EXCEPT !.problems = Append(@, problem)],
                           k + 1)

add_problems(t) == add_problems_from(t, 1)

\* add_events: for each problem, the row of its event is added; an event
\* already there raises ValueError.
RECURSIVE add_events_from(_, _)
add_events_from(t, k) ==
    IF k > Len(ProblemNames) THEN t
    ELSE LET event == EventOf(ProblemNames[k])
         IN  IF event \in Range(t.events)
             THEN [t EXCEPT !.exc = Overwrite]
             ELSE add_events_from([t EXCEPT !.events = Append(@, event)],
                                  k + 1)

add_events(t) == add_events_from(t, 1)

\* What the call leaves in db: the tables before it, the tables after it.
Called(op, problem, force, after) ==
    [pc |-> "testing", n_calls |-> db.n_calls + 1,
     call |-> [op |-> op, problem |-> problem, force |-> force],
     before |-> db.tables, tables |-> after]

TestingUnchanged ==
    UNCHANGED << runnerVars, combineVars, board, fold_predictions,
                 selected_index_lists, best_index_lists, counts, counted,
                 lpc, task, leaderboard, lexc, calls, naming, calib,
                 setup, combined_test >>

\* The exception of the call before has been caught by pytest.raises.
Caught(t) == [t EXCEPT !.exc = NoError]

\* Lines 72 and 78
add_users_call ==
    /\ db.pc = "testing"
    /\ db.n_calls < MaxTestCalls
    /\ db' = Called("add_users", "", FALSE, add_users(Caught(db.tables)))
    /\ TestingUnchanged

\* Lines 82 and 90
add_problems_call ==
    /\ db.pc = "testing"
    /\ db.n_calls < MaxTestCalls
    /\ db' = Called("add_problems", "", FALSE,
                    add_problems(Caught(db.tables)))
    /\ TestingUnchanged

\* Lines 95 and 97, the problems having been added (line 94).
add_events_call ==
    /\ db.pc = "testing"
    /\ db.n_calls < MaxTestCalls
    /\ Range(ProblemNames) \subseteq Range(db.tables.problems)
    /\ db' = Called("add_events", "", FALSE, add_events(Caught(db.tables)))
    /\ TestingUnchanged

\* Lines 57, 60, 67 and 68
setup_ramp_kits_ramp_data_call ==
    /\ db.pc = "testing"
    /\ db.n_calls < MaxTestCalls
    /\ \E problem \in Range(ProblemNames), force \in BOOLEAN :
          db' = Called("setup_ramp_kits_ramp_data", problem, force,
                       setup_ramp_kits_ramp_data(Caught(db.tables), problem,
                                                 force))
    /\ TestingUnchanged

\* Line 64: shutil.rmtree of the kit of a problem.
rmtree_kit ==
    /\ db.pc = "testing"
    /\ db.n_calls < MaxTestCalls
    /\ \E problem \in db.tables.kits :
          db' = Called("rmtree", problem, FALSE,
                       [Caught(db.tables) EXCEPT !.kits = @ \ {problem}])
    /\ TestingUnchanged

InitTesting ==
    /\ InitRunner({<<>>}, {[i \in Rows |-> Sound]}, {"fresh"}, {FALSE},
                  {FALSE})
    /\ CombineOff
    /\ board = "none"
    /\ fold_predictions = <<>>
    /\ selected_index_lists = <<>>
    /\ best_index_lists = <<>>
    /\ counts = <<>>
    /\ counted = 0
    /\ lpc = "off"
    /\ task = [f \in Folds |-> TaskIdle]
    /\ leaderboard = <<>>
    /\ lexc = NoExc
    /\ calls = <<>>
    /\ naming = [pc |-> "none"]
    /\ calib = [pc |-> "none"]
    /\ setup = [pc |-> "none"]
    /\ combined_test = <<>>
    /\ db = [pc |-> "testing", n_calls |-> 0,
             call |-> [op |-> "", problem |-> "", force |-> FALSE],
             before |-> create_test_db, tables |-> create_test_db]

NextTesting ==
    \/ add_users_call
    \/ add_problems_call
    \/ add_events_call
    \/ setup_ramp_kits_ramp_data_call
    \/ rmtree_kit

SpecTesting == InitTesting /\ [][NextTesting]_vars

---------------------------------------------------------------------------
(* IsotonicCalibrator.fit: one isotonic regression per score column.       *)

\* The classes of the prediction type, sorted: column c of a score array
\* holds the scores of Classes[c].
Classes == [c \in 1..NClass |-> c - 1]

\* np.sort(np.unique(y_list))
RECURSIVE SortedSeq(_)
SortedSeq(set) ==
    IF set = {} THEN <<>>
    ELSE LET least == CHOOSE x \in set : \A y \in set : x <= y
         IN  <<least>> \o SortedSeq(set \ {least})

unique(y_list) == SortedSeq(Range(y_list))

IndexError == [type |-> "IndexError", msg |-> <<"x">>]

\* Lines 685-686: 1 where the label is the given one, 0 elsewhere.
class_indicator_of(y_list, label) ==
    [ i \in DOMAIN y_list |-> IF y_list[i] = label THEN 1 ELSE 0 ]

\* Line 680: labels = np.sort(np.unique(y_list))
labels_of(y_list) == unique(y_list)

\* Lines 682-700, one pass: labels[class_index] is the label the column
\* is regressed on; past the end of labels it raises IndexError.
fit_column ==
    /\ calib.pc = "fit"
    /\ calib.class_index < calib.n_columns
    /\ LET labels == labels_of(calib.y_list)
           c == calib.class_index + 1
       IN  IF c > Len(labels)
           THEN calib' = [calib EXCEPT !.pc = "raised",
                                       !.exc = IndexError]
           ELSE calib' = [calib EXCEPT
                            !.class_index = @ + 1,
                            !.calibrators =
                                Append(@, [column |-> c,
                                           label |-> labels[c],
                                           class_indicator |->
                                               class_indicator_of(
                                                   calib.y_list,
                                                   labels[c])])]
    /\ UNCHANGED << runnerVars, combineVars, board, fold_predictions,
                    selected_index_lists, best_index_lists, counts, counted,
                    lpc, task, leaderboard, lexc, calls, naming, db,
                    setup, combined_test >>

\* The loop has run over every column.
fit_return ==
    /\ calib.pc = "fit"
    /\ calib.class_index = calib.n_columns
    /\ calib' = [calib EXCEPT !.pc = "fitted"]
    /\ UNCHANGED << runnerVars, combineVars, board, fold_predictions,
                    selected_index_lists, best_index_lists, counts, counted,
                    lpc, task, leaderboard, lexc, calls, naming, db,
                    setup, combined_test >>

\* The fit sets: 1 to MaxFit labelled points, one score column per class.
InitFit ==
    /\ InitRunner({<<>>}, {[i \in Rows |-> Sound]}, {"fresh"}, {FALSE},
                  {FALSE})
    /\ CombineOff
    /\ board = "none"
    /\ fold_predictions = <<>>
    /\ selected_index_lists = <<>>
    /\ best_index_lists = <<>>
    /\ counts = <<>>
    /\ counted = 0
    /\ lpc = "off"
    /\ task = [f \in Folds |-> TaskIdle]
    /\ leaderboard = <<>>
    /\ lexc = NoExc
    /\ calls = <<>>
    /\ naming = [pc |-> "none"]
    /\ db = [pc |-> "none"]
    /\ setup = [pc |-> "none"]
    /\ combined_test = <<>>
    /\ \E n \in 1..MaxFit :
          \E y_list \in [1..n -> Range(Classes)] :
              calib = [pc |-> "fit", y_list |-> y_list,
                       n_columns |-> NClass, class_index |-> 0,
                       calibrators |-> <<>>, exc |-> NoExc]

NextFit ==
    \/ fit_column
    \/ fit_return

SpecFit == InitFit /\ [][NextFit]_vars

---------------------------------------------------------------------------
(* setup_ground_truth: the ground-truth directory and its files.           *)

OSError == [type |-> "OSError", msg |-> <<"x">>]

\* The directory ground_truth_path and its subdirectory of validation
\* files.
ground_truth_dir == f_dir(ground_truth_path, ".")

ground_truth_valid_dir == f_dir(ground_truth_path, "ground_truth_valid")

\* Lines 129-130
get_ground_truth_test_f_name ==
    f_name_of(ground_truth_path, ".", "ground_truth_test", "csv")

\* What is in the directory: its files and its subdirectories.
ground_truth_listing(fsys) ==
    { p \in DOMAIN fsys.files : p[1] = ground_truth_path }
        \cup { d \in fsys.dirs \ {ground_truth_dir} :
                 d[1] = ground_truth_path }

\* y_train[test_is]
Take(y, is) == [ j \in DOMAIN is |-> y[is[j] + 1] ]

\* Line 157: cv = specific.get_cv(y_train)
setup_cv == get_cv(Len(setup.y_train))

SetupUnchanged ==
    UNCHANGED << orig_models_df, models_df, pos, bpc, mode, is_parallelize,
                 is_pickle_trained_model, open_raises, code, upc, umodel, uexc, wlog, attempts, raised,
                 fs_at_entry, combineVars, board, fold_predictions,
                 selected_index_lists, best_index_lists, counts, counted,
                 lpc, task, leaderboard, lexc, calls, naming, calib, db,
                 combined_test >>

\* Line 153: os.rmdir(ground_truth_path), OSError when the directory does
\* not exist or is not empty.
setup_rmdir ==
    /\ setup.pc = "rmdir"
    /\ IF ground_truth_dir \in fs.dirs /\ ground_truth_listing(fs) = {}
       THEN /\ fs' = [fs EXCEPT !.dirs = @ \ {ground_truth_dir}]
            /\ setup' = [setup EXCEPT !.pc = "mkdir"]
       ELSE /\ fs' = fs
            /\ setup' = [setup EXCEPT !.pc = "raised", !.exc = OSError]
    /\ SetupUnchanged

\* Line 154: os.mkdir(ground_truth_path)
setup_mkdir ==
    /\ setup.pc = "mkdir"
    /\ fs' = MkDir(fs, ground_truth_dir)
    /\ setup' = [setup EXCEPT !.pc = "test"]
    /\ SetupUnchanged

\* Lines 158-159: the test labels are saved.
setup_savetxt_test ==
    /\ setup.pc = "test"
    /\ fs' = WriteFile(fs, get_ground_truth_test_f_name,
                       TextFile(setup.y_test))
    /\ setup' = [setup EXCEPT !.pc = "folds", !.k = 1]
    /\ SetupUnchanged

\* Lines 163-167, one fold: the validation labels of the fold are saved
\* under the identity of its training indices; get_f_dir makes the
\* subdirectory.
setup_savetxt_valid ==
    /\ setup.pc = "folds"
    /\ setup.k <= NFold
    /\ LET train_is == setup_cv[setup.k].train
           test_is == setup_cv[setup.k].valid
           hash == get_hash_string_from_indices(train_is)
       IN  fs' = WriteFile(MkDir(fs, ground_truth_valid_dir),
                           get_ground_truth_valid_f_name(hash),
                           TextFile(Take(setup.y_train, test_is)))
    /\ setup' = [setup EXCEPT !.k = @ + 1]
    /\ SetupUnchanged

\* The loop is exhausted.
setup_return ==
    /\ setup.pc = "folds"
    /\ setup.k > NFold
    /\ fs' = fs
    /\ setup' = [setup EXCEPT !.pc = "done"]
    /\ SetupUnchanged

\* The directory as an earlier setup on n training labels left it.
LeftBySetup(n) ==
    LET earlier == get_cv(n)
        valid == { get_ground_truth_valid_f_name(
                       get_hash_string_from_indices(earlier[k].train)) :
                     k \in Folds }
    IN  [ dirs |-> {ground_truth_dir, ground_truth_valid_dir},
          files |-> [ p \in valid \cup {get_ground_truth_test_f_name} |->
                        TextFile(<<>>) ] ]

\* The label vectors setup_ground_truth works on.
TrainSizes == (NTest - 1)..(NTest + 1)

\* The training labels of NTest - 1 to NTest + 1 points, the test labels
\* of NTest points; the directory absent, empty, or left by an earlier
\* setup.
InitSetup ==
    /\ orig_models_df = <<>>
    /\ models_df = <<>>
    /\ pos = 1
    /\ bpc = "idle"
    /\ mode = NoMode
    /\ is_parallelize = FALSE
    /\ is_pickle_trained_model = FALSE
    /\ open_raises = FALSE
    /\ code = [i \in Rows |-> Sound]
    /\ upc = [f \in Folds |-> Idle]
    /\ umodel = [f \in Folds |-> NoModel]
    /\ uexc = [f \in Folds |-> NoExc]
    /\ wlog = [f \in Folds |-> <<>>]
    /\ attempts = [i \in Rows |-> 0]
    /\ raised = [i \in Rows |-> FALSE]
    /\ CombineOff
    /\ board = "none"
    /\ fold_predictions = <<>>
    /\ selected_index_lists = <<>>
    /\ best_index_lists = <<>>
    /\ counts = <<>>
    /\ counted = 0
    /\ lpc = "off"
    /\ task = [f \in Folds |-> TaskIdle]
    /\ leaderboard = <<>>
    /\ lexc = NoExc
    /\ calls = <<>>
    /\ naming = [pc |-> "none"]
    /\ calib = [pc |-> "none"]
    /\ db = [pc |-> "none"]
    /\ combined_test = <<>>
    /\ \E n \in TrainSizes :
          \E y_train \in [1..n -> {0, 1}] :
              \E found \in [kind : {"absent", "empty"}, n : {0}]
                               \cup [kind : {"left"}, n : TrainSizes] :
                  /\ fs = IF found.kind = "absent"
                          THEN [dirs |-> {}, files |-> <<>>]
                          ELSE IF found.kind = "empty"
                               THEN [dirs |-> {ground_truth_dir},
                                     files |-> <<>>]
                               ELSE LeftBySetup(found.n)
                  /\ setup = [pc |-> "rmdir", y_train |-> y_train,
                              y_test |-> [i \in 1..NTest |-> i % 2],
                              found |-> found, k |-> 1, exc |-> NoExc]
    /\ fs_at_entry = fs

NextSetup ==
    \/ setup_rmdir
    \/ setup_mkdir
    \/ setup_savetxt_test
    \/ setup_savetxt_valid
    \/ setup_return

SpecSetup == InitSetup /\ [][NextSetup]_vars

---------------------------------------------------------------------------
UnitStep(f) ==
    \/ Dispatch(f)
    \/ get_f_dir_exists(f)
    \/ get_f_dir_mkdir(f)
    \/ train_on_fold(f)
    \/ write_execution_time(f)
    \/ pickle_trained_model(f)
    \/ test_trained_model(f)
    \/ save_predictions(f)
    \/ load_trained_model(f)

Next ==
    \/ train_and_valid_models
    \/ train_valid_and_test_models
    \/ test_models
    \/ loop_continue
    \/ loop_run_on_folds
    \/ loop_end
    \/ run_models_succeeded
    \/ run_models_except
    \/ \E f \in Folds : UnitStep(f)

Spec == Init /\ [][Next]_vars

---------------------------------------------------------------------------
(* Model caching in an environment that may refuse to open a model file.   *)

\* Batches of two rows, the first one ignored or to be run, with sound
\* code, on each store an earlier batch can have left; the models are
\* cached and open(f_name, 'w') of a model file may raise.
InitPickle ==
    /\ InitRunnerOpen(TablesOf(2, {1}, {<<"ignore", "new">>, <<"new", "new">>}),
                      {[i \in Rows |-> Sound]},
                      {"fresh", "cached", "corrupt"}, {FALSE}, {TRUE}, BOOLEAN)
    /\ CombineOff
    /\ BoardOff

SpecPickle == InitPickle /\ [][Next]_vars

---------------------------------------------------------------------------
(* Batches one after the other on the same table and the same store.       *)

\* An entry point has returned and the caller is about to call one again:
\* the table and the files are those the batch left.
next_batch ==
    /\ bpc = "returned"
    /\ bpc' = "idle"
    /\ models_df' = <<>>
    /\ pos' = 1
    /\ mode' = NoMode
    /\ attempts' = [i \in Rows |-> 0]
    /\ raised' = [i \in Rows |-> FALSE]
    /\ fs_at_entry' = fs
    /\ UNCHANGED << orig_models_df, configVars, fs, upc, umodel, uexc, wlog >>

\* One new submission, its code raising in any call on any fold or in
\* none, a fresh directory; the loop with the models cached or not, or the
\* pool without caching.  Or an ignored submission before a sound one.
BatchCodes ==
    { [i \in Rows |-> IF i = 1 THEN b ELSE Sound] :
        b \in { c \in Behaviours : c.text = <<"e">> } }

InitBatches ==
    \/ InitWith(TablesOf(1, {1}, {<<"new">>}), BatchCodes, {"fresh"},
                {FALSE}, BOOLEAN)
    \/ InitWith(TablesOf(1, {1}, {<<"new">>}), BatchCodes, {"fresh"},
                {TRUE}, {FALSE})
    \/ InitWith(TablesOf(2, {1}, {<<"ignore", "new">>}),
                {[i \in Rows |-> Sound]}, {"fresh"}, {FALSE}, {FALSE})

NextBatches ==
    \/ Next
    \/ next_batch

SpecBatches == InitBatches /\ [][NextBatches]_vars

---------------------------------------------------------------------------
(* Properties.                                                             *)


IsPrefix(a, b) == Len(a) <= Len(b) /\ SubSeq(b, 1, Len(a)) = a

\* The row of the caller's table with this idx.
RowNow(idx) ==
    orig_models_df[CHOOSE k \in 1..Len(orig_models_df) :
                       orig_models_df[k].idx = idx]

PathOfRow(row) == get_full_model_path(row.idx, row)

\* The subdirectories of a unit's writes, in order.
SubdirsOf(log) == [ k \in 1..Len(log) |-> log[k][2] ]

SuccessLabel(method) ==
    IF method = "train_and_valid_on_fold" THEN "trained" ELSE "tested"

ErrorLabel(method) ==
    IF method = "test_on_fold" THEN "test_error" ELSE "error"

\* C1: failure of one submission never aborts the batch: at every point of
\* the loop each non-ignored row reached so far has been handed to
\* run_on_folds exactly once, every other row never, and run_models
\* returns only with the loop past the last row.
C1_BatchNeverAborted ==
    /\ \A k \in 1..Len(models_df) :
          attempts[models_df[k].idx] =
              IF /\ models_df[k].state # "ignore"
                 /\ (k < pos \/ (k = pos /\ bpc = "folds"))
              THEN 1 ELSE 0
    /\ bpc = "returned" => pos = Len(models_df) + 1

\* A batch has returned in which a submission raised and a submission
\* after it was run.
C1_Witness ==
    /\ bpc = "returned"
    /\ \E k, j \in 1..Len(models_df) :
          /\ k < j
          /\ raised[models_df[k].idx]
          /\ attempts[models_df[j].idx] = 1

\* C2: after run_models returns, every non-ignored row has the mode's
\* success label if no fold unit of it raised and the mode's error label
\* otherwise, whatever its state was before.
C2_StatesAfterBatch ==
    bpc = "returned" =>
        \A k \in 1..Len(models_df) :
            models_df[k].state # "ignore" =>
                RowNow(models_df[k].idx).state =
                    IF raised[models_df[k].idx] THEN ErrorLabel(mode.method)
                    ELSE SuccessLabel(mode.method)

\* A returned test batch with a row taken from error to tested and a row
\* left in test_error.
C2_Witness ==
    /\ bpc = "returned"
    /\ \E k, j \in 1..Len(models_df) :
          /\ models_df[k].state = "error"
          /\ RowNow(models_df[k].idx).state = "tested"
          /\ RowNow(models_df[j].idx).state = "test_error"

\* C3: every submission the batch has put in an error state has a
\* non-empty error artifact <submission_root>/<error_state>.txt.
C3_ErrorArtifactNonEmpty ==
    \A k \in 1..Len(models_df) :
        ( /\ k < pos
          /\ models_df[k].state # "ignore"
          /\ raised[models_df[k].idx]
          /\ RowNow(models_df[k].idx).state = mode.error_state )
        => LET path == error_f_name(PathOfRow(models_df[k]), mode.error_state)
           IN  /\ FileExists(fs, path)
               /\ fs.files[path].text # <<>>

\* C3, the scenario: three submissions, the second raising during
\* training and nothing else: the first and the third end in the success
\* state, the second in the error state.
C3_Scenario ==
    /\ Len(models_df) = 3
    /\ bpc = "returned"
    /\ \A k \in 1..3 :
          /\ models_df[k].state # "ignore"
          /\ \A f \in Folds :
                code[models_df[k].idx].raises[f] = "train" <=> (k = 2 /\ f = 1)
          /\ \A f \in Folds :
                code[models_df[k].idx].raises[f] \in {"none", "train"}

C3_ScenarioOutcome ==
    C3_Scenario =>
        /\ RowNow(models_df[1].idx).state = mode.past_participle
        /\ RowNow(models_df[3].idx).state = mode.past_participle
        /\ RowNow(models_df[2].idx).state = mode.error_state

\* C4: test_on_fold never fails because the cached model of the fold is
\* unreadable.
C4_UnreadableModelNotFatal ==
    \A f \in Folds :
        ~( /\ bpc = "folds"
           /\ mode.method = "test_on_fold"
           /\ upc[f] = Failed
           /\ uexc[f].type = "EOFError" )

\* C5: with the worker pool and no delegated call raising, no unit fails
\* in get_f_dir.
C5_PoolUnitsComplete ==
    ( /\ bpc = "folds"
      /\ is_parallelize
      /\ \A f \in Folds : raises(f) = "none" )
    => \A f \in Folds : ~(upc[f] = Failed /\ uexc[f].type = "OSError")

\* get_f_dir then a write: the subdirectory is created when absent.
WriteIn(fsys, subdir, path, content) ==
    WriteFile(MkDir(fsys, f_dir(full_model_path, subdir)), path, content)

\* test_trained_model_on_test run to its end on fsys: [fs, ok].
TestStepRun(fsys, f, trained_model) ==
    IF raises(f) = "test" THEN [fs |-> fsys, ok |-> FALSE]
    ELSE [fs |-> WriteIn(fsys, "test",
                         get_test_f_name(full_model_path, hash_string(f)),
                         test_model(trained_model, <<"holdout">>)),
          ok |-> TRUE]

\* test_trained_model_and_measure_on_valid run to its end on fsys.
ValidStepRun(fsys, f, trained_model) ==
    IF raises(f) = "valid" THEN [fs |-> fsys, ok |-> FALSE]
    ELSE LET predicted ==
                 WriteIn(fsys, "valid",
                         get_valid_f_name(full_model_path, hash_string(f)),
                         test_model(trained_model, cv[f].valid))
         IN  [fs |-> WriteIn(predicted, "valid_time",
                         get_valid_time_f_name(full_model_path, hash_string(f)),
                         TimeText(valid_time_of(cv[f]))),
              ok |-> TRUE]

\* The method run to its end from the training step on, without pickling.
TrainAndOnRun(fsys, f) ==
    LET touched == TouchFile(fsys, init_py_f_name(full_model_path))
        trained_model == train_model(full_model_path, cv[f])
        timed == WriteIn(touched, "train_time",
                         get_train_time_f_name(full_model_path, hash_string(f)),
                         TimeText(train_time_of(cv[f])))
    IN  IF raises(f) = "train" THEN [fs |-> touched, ok |-> FALSE]
        ELSE IF mode.method = "test_on_fold"
        THEN TestStepRun(timed, f, trained_model)
        ELSE LET validated == ValidStepRun(timed, f, trained_model)
             IN  IF validated.ok /\ mode.method = "train_valid_and_test_on_fold"
                 THEN TestStepRun(validated.fs, f, trained_model)
                 ELSE validated

\* method(cv_is, full_model_path) run alone to its end on fsys.
MethodRun(fsys, f) ==
    IF mode.method # "test_on_fold" THEN TrainAndOnRun(fsys, f)
    ELSE LET path == get_model_f_name(full_model_path, hash_string(f))
             opened == MkDir(fsys, f_dir(full_model_path, "model"))
         IN  IF ~FileExists(fsys, path) THEN TrainAndOnRun(opened, f)
             ELSE IF fsys.files[path].kind = "pickle"
             THEN TestStepRun(opened, f, fsys.files[path].model)
             ELSE [fs |-> opened, ok |-> FALSE]

\* run_on_folds' loop from fold f on: a unit that raises ends the loop.
RECURSIVE LoopFrom(_, _)
LoopFrom(fsys, f) ==
    IF f > NFold THEN fsys
    ELSE LET run == MethodRun(fsys, f)
         IN  IF run.ok THEN LoopFrom(run.fs, f + 1) ELSE run.fs

\* The loop of run_on_folds leaves what LoopFrom computes.
LoopFromIsTheLoop ==
    ( /\ bpc = "folds"
      /\ ~is_parallelize /\ ~is_pickle_trained_model
      /\ ((\A f \in Folds : upc[f] = Done) \/ Escaping # {}) )
    => fs = LoopFrom(fs_at_entry, 1)

\* C6: the worker pool and the loop leave the same artifacts, also when a
\* fold unit raises in a delegated call: once every unit of the pool has
\* come to its end, none of them in get_f_dir's mkdir, the files are those
\* the loop leaves on the same store.
C6_PoolMatchesLoop ==
    ( /\ bpc = "folds"
      /\ is_parallelize /\ ~is_pickle_trained_model
      /\ \A f \in Folds :
            /\ upc[f] \in {Done, Failed}
            /\ uexc[f].type # "OSError" )
    => fs.files = LoopFrom(fs_at_entry, 1).files

TrainValidTestOrder ==
    <<".", "train_time">>
        \o (IF is_pickle_trained_model THEN <<"model">> ELSE <<>>)
        \o <<"valid", "valid_time", "test">>

\* C8: a unit of train_valid_and_test_on_fold writes the train time, then
\* the validation predictions and time, then the test predictions; once
\* it has returned all four artifacts exist.
C8_TrainValidTestInOrder ==
    (bpc = "folds" /\ mode.method = "train_valid_and_test_on_fold") =>
        \A f \in Folds :
            /\ IsPrefix(SubdirsOf(wlog[f]), TrainValidTestOrder)
            /\ upc[f] = Done =>
                  /\ SubdirsOf(wlog[f]) = TrainValidTestOrder
                  /\ \A kind \in {"train_time", "valid", "valid_time", "test"} :
                        FileExists(fs, StageFile(kind, full_model_path,
                                                 hash_string(f)))

\* A unit of train_valid_and_test_on_fold has returned.
C8_Witness ==
    /\ bpc = "folds"
    /\ mode.method = "train_valid_and_test_on_fold"
    /\ \E f \in Folds : upc[f] = Done

\* The artifacts of a step of the fold runner and of the steps after it.
ArtifactsFrom(step) ==
    CASE step = "train" -> ArtifactKinds
      [] step = "valid" -> {"valid", "valid_time", "test"}
      [] OTHER -> {"test"}

\* The unit is past the delegated call of the step.
Past(f, step) ==
    \/ upc[f][1] = step /\ upc[f][2] # "call"
    \/ upc[f][1] \in ArtifactsFrom(step) \ {step}
    \/ step = "train" /\ upc[f][1] = "train_time"
    \/ upc[f] = Done

\* C9: the fold runner handles no exception of the delegated calls: a
\* unit whose train or test call raises fails with that exception, never
\* gets past the call, and has written no artifact of the step or of a
\* later step.
C9_DelegatedErrorPropagates ==
    bpc = "folds" =>
        \A f \in Folds :
            /\ (upc[f] = Failed /\ uexc[f].type = "Exception") =>
                  /\ raises(f) # "none"
                  /\ uexc[f].msg = code[model_df.idx].text
                  /\ \A p \in Range(wlog[f]) :
                        p[2] \notin ArtifactsFrom(raises(f))
            /\ ( /\ raises(f) = "train"
                 /\ init_py_f_name(full_model_path) \in Range(wlog[f]) )
               => upc[f] = Failed /\ uexc[f].type = "Exception"
            /\ (raises(f) = "valid" /\ mode.method # "test_on_fold")
               => ~Past(f, "valid")
            /\ (raises(f) = "test" /\ mode.method # "train_and_valid_on_fold")
               => ~Past(f, "test")

\* A unit has failed in a delegated call after writing an artifact of an
\* earlier step.
C9_Witness ==
    /\ bpc = "folds"
    /\ \E f \in Folds :
          /\ upc[f] = Failed
          /\ uexc[f].type = "Exception"
          /\ \E p \in Range(wlog[f]) : p[2] = "train_time"

ScoreOf(index_list) ==
    score(ground_truth_valid, combine(predictions_list, index_list))

C11_Iteration ==
    (cpc = "loop" /\ cpc' = "loop") =>
        \/ best_index_list' = best_index_list
        \/ /\ Len(best_index_list') = Len(best_index_list) + 1
           /\ SubSeq(best_index_list', 1, Len(best_index_list))
                  = best_index_list
           /\ ScoreGreater(ScoreOf(best_index_list'), ScoreOf(best_index_list))

\* C11: in the greedy loop every iteration strictly increases the combined
\* score or leaves the list unchanged, the list grows by at most one index
\* per iteration and never holds more than 80, and the loop terminates.
C11_GreedyLoopBounded ==
    /\ [][C11_Iteration]_vars
    /\ [](Len(best_index_list) <= 80)
    /\ <>(cpc = "done")

\* The loop has ended at the cap, its last iteration an improvement.
C11_Witness ==
    /\ cpc = "done"
    /\ improvement
    /\ Len(best_index_list) = 80

\* The candidates whose addition to index_list scores highest.
Maximal(index_list) ==
    { j \in 0..(Len(predictions_list) - 1) :
        \A k \in 0..(Len(predictions_list) - 1) :
            ~ScoreGreater(ScoreOf(Append(index_list, k)),
                          ScoreOf(Append(index_list, j))) }

\* C12: when best_combine appends an index and several candidates give the
\* same maximal score, the index appended is the smallest of them.
C12_LowestIndexWinsTies ==
    (bc_in # <<>> /\ Len(bc_out) = Len(bc_in) + 1) =>
        /\ bc_out[Len(bc_out)] \in Maximal(bc_in)
        /\ \A j \in Maximal(bc_in) : bc_out[Len(bc_out)] <= j

\* best_combine has appended the first of several candidates of maximal
\* score, a candidate before it scoring lower.
C12_Witness ==
    /\ cpc = "called"
    /\ Len(bc_out) = Len(bc_in) + 1
    /\ Cardinality(Maximal(bc_in)) >= 2
    /\ bc_out[Len(bc_out)] > 0

\* The candidates of highest individual validation score.
BestAlone ==
    { i \in 0..(Len(predictions_list) - 1) :
        \A j \in 0..(Len(predictions_list) - 1) :
            ~ScoreGreater(score(ground_truth_valid, predictions_list[j + 1]),
                          score(ground_truth_valid, predictions_list[i + 1])) }

\* C13: the greedy selection starts from the list of one index, the lowest
\* of the candidates of highest individual validation score, and that first
\* element stays in place through the iterations.
C13_StartsFromBestSingle ==
    cpc \in {"loop", "done"} =>
        /\ Len(best_index_list) >= 1
        /\ best_index_list[1] \in BestAlone
        /\ \A i \in BestAlone : best_index_list[1] <= i
        /\ bc_in = <<>> => Len(best_index_list) = 1
        /\ bc_in # <<>> => bc_in[1] = best_index_list[1]

\* The loop has ended on a list of several indices, two candidates having
\* tied for the highest individual score.
C13_Witness ==
    /\ cpc = "done"
    /\ Len(best_index_list) >= 3
    /\ Cardinality(BestAlone) >= 2

\* How often index i occurs in index_list.
Multiplicity(index_list, i) ==
    Cardinality({ k \in DOMAIN index_list : index_list[k] = i })

RECURSIVE Occurrences(_, _, _)
\* How often index i occurs in the first t of the lists.
Occurrences(lists, i, t) ==
    IF t = 0 THEN 0
    ELSE Multiplicity(lists[t], i) + Occurrences(lists, i, t - 1)

\* C14: the contributivity count of each submission is the number of its
\* occurrences in the lists counted so far, and at the end in all the
\* per-fold, per-sample best_index_lists: 0 for one that occurs in none.
C14_CountsAreMultiplicities ==
    lpc \in {"counting", "done"} =>
        /\ Len(counts) = n_models
        /\ \A i \in 0..(n_models - 1) :
              counts[i + 1] = Occurrences(best_index_lists, i, counted)
        /\ lpc = "done" => counted = Len(best_index_lists)
        /\ \A t \in 1..Len(best_index_lists) :
              \A k \in 1..Len(best_index_lists[t]) :
                  best_index_lists[t][k] \in 0..(n_models - 1)

\* A leaderboard has returned with a submission listed twice for one
\* fold and counted more than twice, another one not counted at all.
C14_Witness ==
    /\ lpc = "done"
    /\ \E i, j \in 1..Len(counts) :
          /\ counts[i] > 2
          /\ counts[j] = 0
          /\ \E t \in 1..Len(best_index_lists) :
                Multiplicity(best_index_lists[t], i - 1) >= 2

\* The validation score of submission i alone on fold f.
ScoreAlone(f, i) ==
    score(fold_predictions[f].ground_truth, fold_predictions[f].preds[i + 1])

\* On fold f no addition to the single submission i scores higher than i.
NoAdditionImproves(f, i) ==
    \A j \in 0..(n_models - 1) :
        ~ScoreGreater(score(fold_predictions[f].ground_truth,
                            combine(fold_predictions[f].preds, <<i, j>>)),
                      ScoreAlone(f, i))

\* Three submissions A, B, C (0, 1, 2) and two folds: A scores highest on
\* fold 1, B on fold 2, C lowest on both, and no addition improves on the
\* best single submission of a fold.
C15_Scenario ==
    /\ board = "combination"
    /\ Len(fold_predictions) = 2
    /\ n_models = 3
    /\ ScoreGreater(ScoreAlone(1, 0), ScoreAlone(1, 1))
    /\ ScoreGreater(ScoreAlone(1, 1), ScoreAlone(1, 2))
    /\ ScoreGreater(ScoreAlone(2, 1), ScoreAlone(2, 0))
    /\ ScoreGreater(ScoreAlone(2, 0), ScoreAlone(2, 2))
    /\ NoAdditionImproves(1, 0)
    /\ NoAdditionImproves(2, 1)

\* C15: in the scenario the greedy selection returns [A] on fold 1 and [B]
\* on fold 2, and the contributivity histogram is A: 1, B: 1, C: 0.
C15_ScenarioHistogram ==
    C15_Scenario =>
        /\ lpc \in {"counting", "done"} =>
              best_index_lists = << <<0>>, <<1>> >>
        /\ lpc = "done" => counts = <<1, 1, 0>>

\* leaderboard_combination has returned in the scenario.
C15_Witness ==
    /\ lpc = "done"
    /\ C15_Scenario
    /\ counts = <<1, 1, 0>>

\* C16: a unit of test_on_fold that found no cached model leaves the test
\* prediction a unit of train_valid_and_test_on_fold leaves for the same
\* submission and fold: at the same path, the predictions on the holdout
\* set of the model trained on the fold.
C16_TestOnlyMatchesTrainValidTest ==
    bpc = "folds" =>
        \A f \in Folds :
            ( /\ upc[f] = Done
              /\ \/ mode.method = "train_valid_and_test_on_fold"
                 \/ /\ mode.method = "test_on_fold"
                    /\ ~FileExists(fs_at_entry,
                           get_model_f_name(full_model_path, hash_string(f))) )
            => LET path == <<full_model_path, "test", hash_string(f), "csv">>
               IN  /\ wlog[f][Len(wlog[f])] = path
                   /\ FileExists(fs, path)
                   /\ fs.files[path] =
                          test_model(train_model(full_model_path, cv[f]),
                                     <<"holdout">>)

\* A unit of test_on_fold has returned after finding no cached model.
C16_Witness ==
    /\ bpc = "folds"
    /\ mode.method = "test_on_fold"
    /\ \E f \in Folds :
          /\ upc[f] = Done
          /\ ~FileExists(fs_at_entry,
                 get_model_f_name(full_model_path, hash_string(f)))
          /\ FileExists(fs, get_test_f_name(full_model_path, hash_string(f)))

\* C17: a row whose state is ignore is skipped: run_on_folds is never
\* entered for it, nothing is written or created under its path (the
\* directory holds what it held, the empty __init__.py), and its state
\* stays ignore.
C17_IgnoredRowUntouched ==
    \A k \in 1..Len(models_df) :
        models_df[k].state = "ignore" =>
            LET path == PathOfRow(models_df[k])
            IN  /\ attempts[models_df[k].idx] = 0
                /\ ~raised[models_df[k].idx]
                /\ RowNow(models_df[k].idx).state = "ignore"
                /\ bpc = "folds" => pos # k
                /\ \A p \in DOMAIN fs.files :
                      p[1] = path =>
                          /\ p = <<path, ".", "__init__", "py">>
                          /\ fs.files[p] = EmptyFile
                /\ \A d \in fs.dirs : d[1] = path => d[2] = "."

\* A batch has returned in which an ignored row stood between a row that
\* was run with success and a row that raised.
C17_Witness ==
    /\ bpc = "returned"
    /\ \E i, j, k \in 1..Len(models_df) :
          /\ i < j /\ j < k
          /\ models_df[j].state = "ignore"
          /\ attempts[models_df[i].idx] = 1
          /\ raised[models_df[k].idx]

\* The position of a row in the table run_models was given.
OrigPos(row) ==
    CHOOSE k \in 1..Len(orig_models_df) : orig_models_df[k].idx = row.idx

\* Row a comes before row b in the order by timestamp, oldest first.
Older(a, b) == a.timestamp < b.timestamp

\* Row a comes before row b in the order by timestamp with ties kept in
\* the order of the table.
StablyBefore(a, b) ==
    \/ Older(a, b)
    \/ a.timestamp = b.timestamp /\ OrigPos(a) < OrigPos(b)

\* The rows of the batch that are not skipped.
Candidates == { k \in 1..Len(models_df) : models_df[k].state # "ignore" }

\* While a submission is run, every candidate that is strictly older has
\* been run already and no strictly younger one has.
C18_OldestFirst ==
    bpc = "folds" =>
        \A k \in Candidates :
            /\ Older(models_df[k], model_df) => attempts[models_df[k].idx] = 1
            /\ Older(model_df, models_df[k]) => attempts[models_df[k].idx] = 0

\* C18: submissions are processed by timestamp, oldest first, those of
\* equal timestamp in the order of the table: while a submission is run,
\* every candidate before it in that order has been run already.
C18_StableTimestampOrder ==
    bpc = "folds" =>
        \A k \in Candidates :
            StablyBefore(models_df[k], model_df) =>
                attempts[models_df[k].idx] = 1

\* The 0-based offsets at which the marker occurs in a text.
MarkerOffsets(text) == { k \in 0..Len(text) : OccursAt(text, Marker, k) }

LastMarkerOffset(text) ==
    CHOOSE k \in MarkerOffsets(text) : \A j \in MarkerOffsets(text) : j <= k

\* The text from the last occurrence of the marker on, marker included.
FromLastMarker(text) == SubSeq(text, LastMarkerOffset(text) + 1, Len(text))

\* The text after the last occurrence of the marker.
AfterLastMarker(text) ==
    SubSeq(text, LastMarkerOffset(text) + Len(Marker) + 1, Len(text))

\* The step of run_models that handles the exception of the current row.
ExceptStep == bpc = "folds" /\ bpc' = "loop" /\ Escaping # {}

PersistedText == fs'.files[error_f_name(full_model_path, mode.error_state)].text

\* C19 as stated: the persisted error message is the text after the last
\* occurrence of the marker when the exception text holds the marker, and
\* the exception text otherwise.
C19_TextAfterLastMarker ==
    [][ ExceptStep =>
          \E e \in Escaping :
              PersistedText = IF MarkerOffsets(e.msg) # {}
                              THEN AfterLastMarker(e.msg) ELSE e.msg ]_vars

\* C19, amended: the persisted error message is the exception text from
\* its last occurrence of the marker on, the marker included, wherever
\* the marker stands, and the whole exception text when it holds no marker.
C19_TextFromLastMarker ==
    [][ ExceptStep =>
          \E e \in Escaping :
              PersistedText = IF MarkerOffsets(e.msg) # {}
                              THEN FromLastMarker(e.msg) ELSE e.msg ]_vars

\* The pool has raised for a submission whose exception text holds the
\* marker, the formatted traceback holding one more before it: the file
\* holds the text from the second marker on.
C19_Witness ==
    /\ bpc = "returned"
    /\ Len(models_df) = 1
    /\ raised[models_df[1].idx]
    /\ is_parallelize
    /\ code[models_df[1].idx].text = <<"a">> \o Marker \o <<"e">>
    /\ fs.files[error_f_name(PathOfRow(models_df[1]), mode.error_state)].text
           = Marker \o <<"e">>

\* A submission has failed in the loop with the marker opening the text of
\* its exception, and the file holds the whole text.
C19_MarkerFirst ==
    /\ bpc = "returned"
    /\ Len(models_df) = 1
    /\ raised[models_df[1].idx]
    /\ ~is_parallelize
    /\ code[models_df[1].idx].text = Marker \o <<"e">>
    /\ fs.files[error_f_name(PathOfRow(models_df[1]), mode.error_state)].text
           = Marker \o <<"e">>

\* The prediction-list read and the execution-time leaderboard return
\* whatever files are absent, with None and with a time of 0 in their
\* place.
C20_ReadsComplete ==
    /\ board = "predictions_list" => lpc # "raised"
    /\ (board = "execution_times" /\ num_cv_folds # 0) => lpc # "raised"
    /\ (board = "predictions_list" /\ lpc = "done") =>
          \A k \in 1..Len(board_models_df) :
              (\A f \in Folds :
                  ~FileExists(fs, <<PathOfRow(board_models_df[k]), "valid",
                                    hash_string(f), "csv">>))
              => leaderboard[k] = None
    /\ (board = "execution_times" /\ lpc = "done") =>
          \A k \in 1..Len(board_models_df) :
              (\A f \in Folds :
                  ~FileExists(fs, <<PathOfRow(board_models_df[k]), "train_time",
                                    hash_string(f), "csv">>))
              => leaderboard[k].train_time = 0
    /\ (board = "execution_times" /\ lpc = "done") =>
          \A k \in 1..Len(board_models_df) :
              (\A f \in Folds :
                  ~FileExists(fs, <<PathOfRow(board_models_df[k]), "valid_time",
                                    hash_string(f), "csv">>))
              => leaderboard[k].test_time = 0

\* C20: a missing artifact never aborts a leaderboard computation: the
\* execution-time leaderboard, the mean-score leaderboard with and without
\* calibration and the prediction-list read all complete, whatever
\* prediction and timing files are absent: no exception leaves them.
C20_MissingArtifactNeverAborts ==
    board \in {"predictions_list", "execution_times", "mean_of_scores",
               "mean_of_scores_calibrated"}
    => lpc # "raised"

\* The calibrated mean-score leaderboard never fails in
\* calibrate_predictions.
C20_CalibrationNeverAborts ==
    \A f \in Folds : ~(task[f].phase = "failed" /\ task[f].at = "calibrate")

\* The sum of the times of row k in a subdirectory over the discovered
\* folds, an absent file counting for 0.
TimesOfRow(k, subdir) ==
    TimeSum(fs, PathOfRow(board_models_df[k]), subdir, NFold)

\* C21: the execution-time leaderboard returns, also with no fold
\* discovered, and reports for each submission the mean of its train times
\* and the mean of its validation times over the discovered folds, a
\* missing file contributing 0.
C21_ExecutionTimesAreMeans ==
    board = "execution_times" =>
        /\ lpc # "raised"
        /\ lpc = "done" =>
              \A k \in 1..Len(board_models_df) :
                  /\ leaderboard[k].train_time * num_cv_folds
                         = TimesOfRow(k, "train_time")
                  /\ leaderboard[k].test_time * num_cv_folds
                         = TimesOfRow(k, "valid_time")

\* With a fold discovered the leaderboard returns the integer part of
\* each mean.
C21_IntegerPartOfMeans ==
    (board = "execution_times" /\ num_cv_folds # 0) =>
        /\ lpc # "raised"
        /\ lpc = "done" =>
              \A k \in 1..Len(board_models_df) :
                  LET t == leaderboard[k].train_time
                      v == leaderboard[k].test_time
                  IN  /\ t * num_cv_folds <= TimesOfRow(k, "train_time")
                      /\ TimesOfRow(k, "train_time") < (t + 1) * num_cv_folds
                      /\ v * num_cv_folds <= TimesOfRow(k, "valid_time")
                      /\ TimesOfRow(k, "valid_time") < (v + 1) * num_cv_folds

\* The leaderboard never returns a time that is not the mean.
C21_MeansExact ==
    (board = "execution_times" /\ lpc = "done") =>
        \A k \in 1..Len(board_models_df) :
            leaderboard[k].train_time * num_cv_folds = TimesOfRow(k, "train_time")

CombinationBoards == {"combination", "combination_mean_of_scores"}

\* C22: the combination leaderboards list every submission once, with its
\* count, in descending order of contributivity: the count of a row is
\* greater than or equal to the count of the row under it.
C22_DescendingContributivity ==
    (board \in CombinationBoards /\ lpc = "done" /\ n_models # 0) =>
        /\ Len(leaderboard) = n_models
        /\ \A i \in 0..(n_models - 1) :
              \E k \in 1..n_models :
                  /\ leaderboard[k].index = i
                  /\ leaderboard[k].contributivity = counts[i + 1]
        /\ \A k \in 1..(n_models - 1) :
              leaderboard[k].contributivity >= leaderboard[k + 1].contributivity

\* A leaderboard has been returned in which the sort moved a submission
\* up: the first row is not the first submission and counts more than
\* the last row.
C22_Witness ==
    /\ board \in CombinationBoards
    /\ lpc = "done"
    /\ n_models >= 3
    /\ counts[1] < counts[2]
    /\ leaderboard[1].index # 0
    /\ leaderboard[1].contributivity > leaderboard[n_models].contributivity

MeanScoreBoards == {"mean_of_scores", "mean_of_scores_calibrated"}

\* Whether the validation predictions of row k are on disk for every
\* discovered fold.
AllPredicted(k) ==
    \A f \in hash_strings :
        FileExists(fs, get_valid_f_name(PathOfRow(board_models_df[k]),
                                        hash_string(f)))

\* The sum over the discovered folds among 1..f of the scores of the
\* validation predictions of row k against the labels of the fold.
RECURSIVE FoldScoreSum(_, _)
FoldScoreSum(k, f) ==
    IF f = 0 THEN [num |-> 0, den |-> 1]
    ELSE IF f \notin hash_strings THEN FoldScoreSum(k, f - 1)
    ELSE LET file == fs.files[get_valid_f_name(PathOfRow(board_models_df[k]),
                                               hash_string(f))]
             labels == fs.files[get_ground_truth_valid_f_name(hash_string(f))]
             a == score(labels.ground_truth, file.predictions)
             b == FoldScoreSum(k, f - 1)
         IN  [num |-> a.num * b.den + b.num * a.den, den |-> a.den * b.den]

\* C23: the mean-score leaderboard lists every submission once; the score
\* of a submission predicted on every discovered fold is the average of
\* its per-fold scores over the discovered folds; the rows are sorted
\* ascending by that score.
C23_MeanScoresAscending ==
    (board \in MeanScoreBoards /\ lpc = "done") =>
        /\ Len(leaderboard) = Len(board_models_df)
        /\ \A k \in 1..Len(board_models_df) :
              \E j \in 1..Len(leaderboard) :
                  /\ leaderboard[j].index = board_models_df[k].idx
                  /\ AllPredicted(k) =>
                        leaderboard[j].score.num
                                * (FoldScoreSum(k, NFold).den * num_cv_folds)
                            = FoldScoreSum(k, NFold).num * leaderboard[j].score.den
        /\ \A j \in 1..(Len(leaderboard) - 1) :
              ~ScoreGreater(leaderboard[j].score, leaderboard[j + 1].score)

\* A leaderboard of the mean scores over two folds has been returned in
\* which the sort put the second submission, of lower score, first.
C23_Witness ==
    /\ board = "mean_of_scores"
    /\ lpc = "done"
    /\ num_cv_folds = 2
    /\ Len(leaderboard) = 2
    /\ AllPredicted(1) /\ AllPredicted(2)
    /\ leaderboard[1].index = board_models_df[2].idx
    /\ ScoreGreater(leaderboard[2].score, leaderboard[1].score)

\* C24: round trip of fold naming: the hash read off the file name built
\* for a submission directory, an artifact kind and a fold identity is
\* that identity.
C24_NamingRoundTrip ==
    naming.pc = "read" => naming.read = <<naming.hash_string>>

\* The identity has been read off a model file name under a directory
\* whose path holds a dot and a slash.
C24_Witness ==
    /\ naming.pc = "read"
    /\ naming.subdir = "model"
    /\ naming.full_model_path = <<".", "/", "m">>
    /\ naming.read = <<naming.hash_string>>

ReadBoards ==
    {"predictions_list", "execution_times", "mean_of_scores",
     "mean_of_scores_calibrated"}

\* C26: artifact subdirectories are created on first write only: the
\* leaderboard functions, which only read and look up artifacts, leave
\* the store as it is, directories and files.
C26_ReadsLeaveStoreUnchanged ==
    [][ (board \in ReadBoards) => fs' = fs ]_vars

\* The leaderboard functions create, change and remove no file.
C26_ReadsLeaveFilesUnchanged ==
    [][ (board \in ReadBoards) => fs'.files = fs.files ]_vars

\* A table with the state column taken from another.
WithStatesOf(df, other) ==
    [ k \in 1..Len(df) |-> [df[k] EXCEPT !.state = other[k].state] ]

TableStep ==
    /\ Len(orig_models_df') = Len(orig_models_df)
    /\ WithStatesOf(orig_models_df', orig_models_df) = orig_models_df

TrainValidOrder == SubSeq(TrainValidTestOrder, 1, Len(TrainValidTestOrder) - 1)

\* C28: a unit of train_and_valid_on_fold writes what
\* train_valid_and_test_on_fold writes in its train and validate steps, in
\* the same order, and never a test prediction artifact: no write of it
\* goes to the test subdirectory and no file appears there.
C28_TrainValidWithoutTest ==
    (bpc = "folds" /\ mode.method = "train_and_valid_on_fold") =>
        \A f \in Folds :
            /\ IsPrefix(SubdirsOf(wlog[f]), TrainValidOrder)
            /\ upc[f] = Done =>
                  /\ SubdirsOf(wlog[f]) = TrainValidOrder
                  /\ \A kind \in {"train_time", "valid", "valid_time"} :
                        FileExists(fs, StageFile(kind, full_model_path,
                                                 hash_string(f)))
            /\ \A p \in Range(wlog[f]) : p[2] # "test"
            /\ ~FileExists(fs, get_test_f_name(full_model_path, hash_string(f)))
            /\ f_dir(full_model_path, "test") \notin fs.dirs

\* Every unit of a submission run by train_and_valid_on_fold has returned.
C28_Witness ==
    /\ bpc = "folds"
    /\ mode.method = "train_and_valid_on_fold"
    /\ \A f \in Folds : upc[f] = Done /\ SubdirsOf(wlog[f]) = TrainValidOrder

NoDuplicates(rows) ==
    \A i, j \in DOMAIN rows : rows[i] = rows[j] => i = j

FitOver == calib.pc \in {"fitted", "raised"}

\* Every class has an example in the fit set.
EveryClassPresent == Range(calib.y_list) = Range(Classes)

\* C32: for every fit set, also one in which a class has no example, fit
\* does not fail and regresses column c on the indicator of the c-th
\* class.
C32_ColumnsPairedWithClasses ==
    FitOver =>
        /\ calib.pc = "fitted"
        /\ Len(calib.calibrators) = calib.n_columns
        /\ \A c \in DOMAIN calib.calibrators :
              calib.calibrators[c].class_indicator
                  = class_indicator_of(calib.y_list, Classes[c])

\* C32, the fit sets in which every class has an example.
C32_PairedWhenEveryClassPresent ==
    (FitOver /\ EveryClassPresent) =>
        /\ calib.pc = "fitted"
        /\ Len(calib.calibrators) = calib.n_columns
        /\ \A c \in DOMAIN calib.calibrators :
              calib.calibrators[c].class_indicator
                  = class_indicator_of(calib.y_list, Classes[c])

\* C32, a class without example: the columns of the classes after it are
\* regressed on the indicator of another class, or fit raises IndexError.
C32_MissingClassMispairsOrRaises ==
    (FitOver /\ ~EveryClassPresent) =>
        \/ calib.pc = "raised"
        \/ \E c \in DOMAIN calib.calibrators :
              calib.calibrators[c].label # Classes[c]


\* Row k of the batch has been run and the batch has left it.
LeftByBatch(k) ==
    /\ attempts[models_df[k].idx] >= 1
    /\ bpc = "folds" => pos # k

\* C33: a row the batch has left in state trained has its train-time,
\* validation-prediction and validation-time artifacts for every fold of
\* the fold set, and a row it has left in state tested has its
\* test-prediction artifact for every fold.
C33_SuccessOnlyWithArtifacts ==
    \A k \in 1..Len(models_df) :
        ( /\ LeftByBatch(k)
          /\ RowNow(models_df[k].idx).state = mode.past_participle )
        => LET path == PathOfRow(models_df[k])
           IN  \A f \in Folds :
                   /\ mode.past_participle = "trained" =>
                         /\ FileExists(fs, get_train_time_f_name(
                                               path, hash_string(f)))
                         /\ FileExists(fs, get_valid_f_name(
                                               path, hash_string(f)))
                         /\ FileExists(fs, get_valid_time_f_name(
                                               path, hash_string(f)))
                   /\ mode.past_participle = "tested" =>
                         FileExists(fs, get_test_f_name(path,
                                                        hash_string(f)))

\* A batch run by the worker pool has returned with a row trained and a
\* row in error.
C33_Witness ==
    /\ bpc = "returned"
    /\ is_parallelize
    /\ mode.past_participle = "trained"
    /\ \E i, j \in 1..Len(models_df) :
          /\ RowNow(models_df[i].idx).state = "trained"
          /\ attempts[models_df[i].idx] = 1
          /\ RowNow(models_df[j].idx).state = "error"


\* The fold identities the names of the validation ground-truth files
\* carry.
GroundTruthIdentities(fsys) ==
    { p[3] : p \in { q \in DOMAIN fsys.files :
                       /\ q[1] = ground_truth_path
                       /\ q[2] = "ground_truth_valid" } }

\* The fold identities run_models writes a submission's artifacts under.
RunIdentities == { hash_string(f) : f \in Folds }

\* C34: the fold identities setup_ground_truth names the validation ground
\* truth by are the fold identities run_models writes the artifacts under.
C34_SameFoldIdentities ==
    setup.pc = "done" => GroundTruthIdentities(fs) = RunIdentities

\* C34, what the code does: the identities of the ground truth are those
\* of the folds of the training labels.
C34_IdentitiesOfTrainFolds ==
    setup.pc = "done" =>
        GroundTruthIdentities(fs) =
            { get_hash_string_from_indices(get_cv(Len(setup.y_train))[k].train) :
                k \in Folds }


\* The files of a ground-truth directory set up for the current folds: one
\* validation file per fold, named by the identity of its training
\* indices, and the test file.
CurrentGroundTruth ==
    { get_ground_truth_valid_f_name(
          get_hash_string_from_indices(setup_cv[k].train)) : k \in Folds }
        \cup {get_ground_truth_test_f_name}

SetupOver == setup.pc \in {"done", "raised"}

\* C39: run on a directory an earlier setup left, setup_ground_truth
\* cleans it up and leaves exactly the validation files of the current
\* folds and the test file.
C39_RerunCleansUp ==
    (SetupOver /\ setup.found.kind = "left") =>
        /\ setup.pc = "done"
        /\ { p \in DOMAIN fs.files : p[1] = ground_truth_path }
               = CurrentGroundTruth

\* C39, the directory found empty: the files of the current folds and the
\* test file, nothing else.
C39_EmptyDirectorySetUp ==
    (SetupOver /\ setup.found.kind = "empty") =>
        /\ setup.pc = "done"
        /\ { p \in DOMAIN fs.files : p[1] = ground_truth_path }
               = CurrentGroundTruth

\* C39, the directory found absent or with files in it: os.rmdir raises
\* OSError and nothing is changed.
C39_RmdirRaises ==
    (SetupOver /\ setup.found.kind # "empty") =>
        /\ setup.pc = "raised"
        /\ setup.exc = OSError
        /\ fs = fs_at_entry


\* The lists get_best_index_list returned for a fold, by position in
\* best_index_lists.
SelectedOn(fold) ==
    { t \in DOMAIN best_index_lists :
        ((t - 1) \div Len(selected_index_lists)) + 1 = fold }

\* How often each index is in a list.
Multiplicities(index_list) ==
    [ i \in 0..(n_models - 1) |->
        Cardinality({ j \in DOMAIN index_list : index_list[j] = i }) ]

\* C35: the combined test prediction of a fold combines the test
\* predictions of the fold over the submissions of a best_index_list
\* selected on that fold, with their multiplicities, the list being the one
\* the call was given.
C35_CombinedTestOfBestList ==
    \A k \in DOMAIN combined_test :
        LET call == combined_test[k]
        IN  /\ call.combined_test_predictions.fold = call.hash_string
            /\ \E t \in SelectedOn(call.hash_string) :
                  call.best_index_list = best_index_lists[t]
            /\ Multiplicities(call.combined_test_predictions.indexes)
                   = Multiplicities(call.best_index_list)

\* C35, what the code combines: every submission once, whatever the list.
C35_CombinesEverySubmission ==
    \A k \in DOMAIN combined_test :
        combined_test[k].combined_test_predictions.indexes
            = [ i \in 1..n_models |-> i - 1 ]

\* C35, the pairing: the k-th fold is given the k-th list.
C35_PairedByPosition ==
    \A k \in DOMAIN combined_test :
        /\ combined_test[k].hash_string = k
        /\ combined_test[k].best_index_list = best_index_lists[k]

\* C35, second half: the list a fold is given was selected on that fold.
C35_ListAppliedToItsFold ==
    \A k \in DOMAIN combined_test :
        \E t \in SelectedOn(combined_test[k].hash_string) :
            combined_test[k].best_index_list = best_index_lists[t]


ErrorLabels == {"error", "test_error"}

\* C36: after any sequence of batches a submission has the error artifact
\* of an error label if and only if its state is that label.
C36_ErrorArtifactIffErrorState ==
    bpc = "returned" =>
        \A k \in 1..Len(orig_models_df) :
            \A label \in ErrorLabels :
                FileExists(fs, error_f_name(PathOfRow(orig_models_df[k]),
                                            label))
                    <=> orig_models_df[k].state = label

\* C36, the successful run after a failed one: a submission a batch has
\* left trained or tested has no error artifact.
C36_SuccessLeavesNoErrorArtifact ==
    bpc = "returned" =>
        \A k \in 1..Len(orig_models_df) :
            orig_models_df[k].state \in {"trained", "tested"} =>
                \A label \in ErrorLabels :
                    ~FileExists(fs, error_f_name(
                                        PathOfRow(orig_models_df[k]), label))

\* C36, one direction: a submission in an error state has the artifact of
\* that label.
C36_ErrorStateHasArtifact ==
    bpc = "returned" =>
        \A k \in 1..Len(orig_models_df) :
            \A label \in ErrorLabels :
                orig_models_df[k].state = label =>
                    FileExists(fs, error_f_name(
                                       PathOfRow(orig_models_df[k]), label))

\* C36, what the code does: an error artifact, once written, stays.
C36_ErrorArtifactStays ==
    [][ \A k \in 1..Len(orig_models_df) :
          \A label \in ErrorLabels :
              FileExists(fs, error_f_name(PathOfRow(orig_models_df[k]),
                                          label))
                  => FileExists(fs', error_f_name(
                                         PathOfRow(orig_models_df[k]), label))
      ]_vars


\* The validation artifacts of a store.
ValidationArtifacts(fsys) ==
    { p \in DOMAIN fsys.files : p[2] \in {"valid", "valid_time"} }

\* C37: a run of test_on_fold over the folds of a submission creates and
\* changes no validation-prediction or validation-time artifact; a unit
\* that finds a model file writes no train-time artifact, and a unit that
\* finds none and completes has written it.
C37_TestOnlyFrame ==
    (bpc = "folds" /\ mode.method = "test_on_fold") =>
        /\ ValidationArtifacts(fs) = ValidationArtifacts(fs_at_entry)
        /\ \A p \in ValidationArtifacts(fs) :
              fs.files[p] = fs_at_entry.files[p]
        /\ \A f \in Folds :
              LET train_time ==
                      get_train_time_f_name(full_model_path, hash_string(f))
                  cached ==
                      FileExists(fs_at_entry,
                          get_model_f_name(full_model_path, hash_string(f)))
              IN  /\ \A p \in Range(wlog[f]) :
                        p[2] \notin {"valid", "valid_time"}
                  /\ cached =>
                        /\ train_time \notin Range(wlog[f])
                        /\ FileExists(fs, train_time)
                               <=> FileExists(fs_at_entry, train_time)
                        /\ FileExists(fs, train_time) =>
                               fs.files[train_time]
                                   = fs_at_entry.files[train_time]
                  /\ (~cached /\ upc[f] = Done) =>
                        train_time \in Range(wlog[f])

\* A unit of test_on_fold has loaded the model an earlier batch cached and
\* completed, the validation artifacts of that batch being there.
C37_Witness ==
    /\ bpc = "folds"
    /\ mode.method = "test_on_fold"
    /\ \E f \in Folds :
          /\ upc[f] = Done
          /\ FileExists(fs_at_entry,
                 get_model_f_name(full_model_path, hash_string(f)))
          /\ FileExists(fs, get_valid_f_name(full_model_path, hash_string(f)))
          /\ FileExists(fs, get_train_time_f_name(full_model_path,
                                                  hash_string(f)))

\* A unit of test_on_fold has found no model, retrained and completed.
C37_Retrained ==
    /\ bpc = "folds"
    /\ mode.method = "test_on_fold"
    /\ \E f \in Folds :
          /\ upc[f] = Done
          /\ ~FileExists(fs_at_entry,
                  get_model_f_name(full_model_path, hash_string(f)))


\* The sub-sample the t-th selection ran on.
SubSampleOf(t) ==
    selected_index_lists[((t - 1) % Len(selected_index_lists)) + 1]

\* The submissions that took part in the t-th selection: those of its
\* sub-sample, all of them when it is empty.
TookPart(t) ==
    IF Len(SubSampleOf(t)) = 0 THEN 0..(n_models - 1)
    ELSE Range(SubSampleOf(t))

\* C38: every index of a best list returned is an index of the submission
\* table that took part in that selection, and a submission is credited
\* only if it took part in a selection.
C38_BestListWithinSubSample ==
    lpc \in {"counting", "tested", "done"} =>
        /\ \A t \in DOMAIN best_index_lists :
              \A k \in DOMAIN best_index_lists[t] :
                  /\ best_index_lists[t][k] \in 0..(n_models - 1)
                  /\ best_index_lists[t][k] \in TookPart(t)
        /\ \A i \in 0..(n_models - 1) :
              counts[i + 1] > 0 =>
                  \E t \in DOMAIN best_index_lists : i \in TookPart(t)

\* The leaderboard has returned after a selection on a sub-sample that
\* leaves a submission out, the best list naming a submission whose index
\* in the table is not its position in the sub-sample.
C38_Witness ==
    /\ lpc = "done"
    /\ board = "combination_mean_of_scores"
    /\ \E t \in DOMAIN best_index_lists :
          /\ Len(SubSampleOf(t)) > 0
          /\ Len(SubSampleOf(t)) < n_models
          /\ \E k \in DOMAIN best_index_lists[t] :
                \E j \in DOMAIN SubSampleOf(t) :
                    /\ SubSampleOf(t)[j] = best_index_lists[t][k]
                    /\ j - 1 # best_index_lists[t][k]

\* The leaderboard has returned after selections on empty sub-samples.
C38_EmptySubSample ==
    /\ lpc = "done"
    /\ board = "combination_mean_of_scores"
    /\ best_index_lists # <<>>
    /\ \A t \in DOMAIN best_index_lists : Len(SubSampleOf(t)) = 0


\* The model file of fold f of the submission being run.
ModelFileOf(f) == get_model_f_name(full_model_path, hash_string(f))

\* The model file of fold f holds the complete model or does not exist.
CompleteOrAbsent(f) ==
    \/ ~FileExists(fs, ModelFileOf(f))
    \/ fs.files[ModelFileOf(f)] = Pickled(umodel[f])

\* Fold f is at pickle_trained_model and takes the step.
Pickling(f) ==
    /\ bpc = "folds"
    /\ upc[f] = <<"model", "write">>
    /\ upc'[f] # upc[f]

\* C40: persisting a trained model is best effort: whether opening the
\* file or serializing the model fails, the fold operation goes on, and
\* afterwards the model file holds a complete model or does not exist.
C40_PicklingIsBestEffort ==
    [][ \A f \in Folds :
          Pickling(f) => (upc'[f] = AfterTrain /\ CompleteOrAbsent(f)') ]_vars

\* C40, when the file can be opened: a failing pickle.dump is logged, the
\* file removed and the fold operation goes on.
C40_DumpFailureIsBestEffort ==
    [][ \A f \in Folds :
          (Pickling(f) /\ ~open_raises) =>
              (upc'[f] = AfterTrain /\ CompleteOrAbsent(f)') ]_vars

\* C40, when open raises and there is no model file: os.remove raises
\* OSError in the handler and the fold operation fails.
C40_OpenFailureRaises ==
    [][ \A f \in Folds :
          (Pickling(f) /\ open_raises /\ ~FileExists(fs, ModelFileOf(f))) =>
              (upc'[f] = Failed /\ uexc'[f].type = "OSError") ]_vars

\* A fold operation has failed in pickle_trained_model.
C40_FailedInPickling ==
    \E f \in Folds :
        /\ open_raises
        /\ upc[f] = Failed
        /\ uexc[f].type = "OSError"

\* A fold operation has gone on after a dump that failed.
C40_WentOnWithoutModelFile ==
    \E f \in Folds :
        /\ ~open_raises
        /\ upc[f] = Done
        /\ umodel[f] # NoModel
        /\ ~FileExists(fs, ModelFileOf(f))

====
